---- MODULE Spec2Model ----
(***************************************************************************)
(* DriveMindr: the Safety Engine (safety.py), the classification           *)
(* orchestrator (classifier.py), the Catalog (database.py), and the        *)
(* execution engine (executor.py), modelled as state machines.             *)
(*                                                                         *)
(* Conventions                                                             *)
(*   - Python str values are TLA+ strings; Len, SubSeq and \o act on them. *)
(*   - Python None is the string None below; Truthy(s) is Python's         *)
(*     truthiness of an Optional[str].                                     *)
(*   - A confidence is an integer number of 1e-5 units, so 0.85 is 85000   *)
(*     and 0.84999 is 84999.                                               *)
(*                                                                         *)
(* Specifications                                                          *)
(*   - SpecSafety:   SafetyEngine.check applied to drawn inputs.           *)
(*   - SpecClassify: the classify command, FileClassifier.classify_all,    *)
(*     against an LLM endpoint and a Catalog that may fail.                *)
(*   - SpecExecute:  review decisions and ExecutionEngine.execute_plan on  *)
(*     a classified catalog.  The Catalog's review operations              *)
(*     (save_user_decision, save_batch_decisions, get_files_by_action,     *)
(*     get_approved_actions) are not part of database.py and follow the    *)
(*     documented approved-action view.                                    *)
(*   - SpecParse:    _parse_response applied to JSON arrays wrapped in     *)
(*     prose and code fences.                                              *)
(*   - SpecClient:   OllamaClient constructed with drawn hosts, and the    *)
(*     requests it sends.                                                  *)
(*   - SpecPrompt:   _build_batch_prompt in two runs over drawn rows.      *)
(*   - SpecPlan:     execute_plan and UndoManager.undo_batch on reviewed   *)
(*     catalogs, with file-system and Catalog faults.                      *)
(*   - SpecDisk:     the same on an application directory and a file,      *)
(*     on a disk that may have changed since the scan.                     *)
(*   - SpecDest:     _compute_dest_path applied to drawn paths and         *)
(*     categories.                                                         *)
(*   - SpecCatalog:  Database.transaction with upsert_file,                *)
(*     bulk_upsert_files and a scope whose caller raises.                  *)
(*     The connection keeps the rowids of the files rows, the              *)
(*     AUTOINCREMENT sequence and the last insert rowid.                   *)
(***************************************************************************)
EXTENDS Integers, Sequences, FiniteSets, TLC

(***************************************************************************)
(* Python string primitives                                                *)
(***************************************************************************)
None == "<None>"

Truthy(s) == s # None /\ s # ""

UpperChars == "ABCDEFGHIJKLMNOPQRSTUVWXYZ"

LowerChars == "abcdefghijklmnopqrstuvwxyz"

CharAt(s, i) == SubSeq(s, i, i)

ToLowerMap ==
  [c \in {CharAt(UpperChars, i) : i \in 1..26} |->
     CharAt(LowerChars, CHOOSE i \in 1..26 : CharAt(UpperChars, i) = c)]

ToUpperMap ==
  [c \in {CharAt(LowerChars, i) : i \in 1..26} |->
     CharAt(UpperChars, CHOOSE i \in 1..26 : CharAt(LowerChars, i) = c)]

RECURSIVE MapChars(_, _, _)
MapChars(m, s, i) ==
  IF i > Len(s) THEN ""
  ELSE (IF CharAt(s, i) \in DOMAIN m THEN m[CharAt(s, i)] ELSE CharAt(s, i))
       \o MapChars(m, s, i + 1)

\* str.lower()
Lower(s) == MapChars(ToLowerMap, s, 1)

\* str.upper()
Upper(s) == MapChars(ToUpperMap, s, 1)

\* pattern in s
Contains(pattern, s) ==
  \E i \in 1..(Len(s) - Len(pattern) + 1) :
     SubSeq(s, i, i + Len(pattern) - 1) = pattern

\* s.rfind(c) for a one-character c, 1-based; 0 when absent
RFind(s, c) ==
  LET hits == {i \in 1..Len(s) : CharAt(s, i) = c}
  IN  IF hits = {} THEN 0 ELSE CHOOSE i \in hits : \A j \in hits : j <= i

(***************************************************************************)
(* pathlib.PureWindowsPath: parts, name, suffix, relative_to               *)
(***************************************************************************)
IsSep(c) == c = "\\" \/ c = "/"

\* The components of a drive-absolute Windows path, split on either
\* separator with empty components dropped: C:\Users\a.txt gives
\* <<"C:", "Users", "a.txt">>.
RECURSIVE SplitFrom(_, _, _)
SplitFrom(s, i, cur) ==
  IF i > Len(s)
  THEN IF cur = "" THEN <<>> ELSE <<cur>>
  ELSE IF IsSep(CharAt(s, i))
       THEN (IF cur = "" THEN <<>> ELSE <<cur>>) \o SplitFrom(s, i + 1, "")
       ELSE SplitFrom(s, i + 1, cur \o CharAt(s, i))

PathParts(s) == SplitFrom(s, 1, "")

\* PureWindowsPath(s).name: the last component, empty for a bare drive
PathName(s) ==
  LET parts == PathParts(s)
  IN  IF Len(parts) <= 1 THEN "" ELSE parts[Len(parts)]

\* PureWindowsPath(s).suffix: from the last dot of the name, unless that dot
\* is the first or the last character of the name
PathSuffix(s) ==
  LET name == PathName(s)
      i    == RFind(name, ".")
  IN  IF 1 < i /\ i < Len(name) THEN SubSeq(name, i, Len(name)) ELSE ""

\* The case-folded components by which PureWindowsPath compares paths
CaseFold(parts) == [i \in 1..Len(parts) |-> Lower(parts[i])]

\* PureWindowsPath.relative_to(root) succeeds: the case-folded components
\* of root are a prefix of the case-folded components of the path
IsRelativeTo(folded_parts, folded_root) ==
  /\ Len(folded_root) <= Len(folded_parts)
  /\ \A i \in 1..Len(folded_root) : folded_parts[i] = folded_root[i]

(***************************************************************************)
(* config.py                                                               *)
(***************************************************************************)
CONFIDENCE_AUTO_APPROVE == 70000

CONFIDENCE_UNCERTAIN == 40000

CONFIDENCE_DELETE_MIN == 85000

PROTECTED_PATHS ==
  << "C:\\Windows",
     "C:\\Program Files\\WindowsApps",
     "C:\\Program Files\\Windows Defender",
     "C:\\Program Files\\Windows Defender Advanced Threat Protection",
     "C:\\Program Files\\Windows Mail",
     "C:\\Program Files\\Windows Media Player",
     "C:\\Program Files\\Windows Multimedia Platform",
     "C:\\Program Files\\Windows NT",
     "C:\\Program Files\\Windows Photo Viewer",
     "C:\\Program Files\\Windows Portable Devices",
     "C:\\Program Files\\Windows Security",
     "C:\\Program Files\\Windows Sidebar",
     "C:\\ProgramData\\Microsoft",
     "C:\\Program Files (x86)\\Windows Defender",
     "C:\\Recovery",
     "C:\\$Recycle.Bin",
     "C:\\System Volume Information",
     "C:\\Boot",
     "C:\\bootmgr",
     "C:\\BOOTNXT" >>

PROTECTED_OWNERS ==
  << "TrustedInstaller",
     "NT SERVICE\\TrustedInstaller",
     "SYSTEM",
     "NT AUTHORITY\\SYSTEM" >>

DOCUMENT_EXTENSIONS ==
  { ".doc", ".docx", ".pdf", ".txt", ".md", ".rtf", ".odt", ".tex", ".pages",
    ".xls", ".xlsx", ".csv", ".ods", ".numbers",
    ".ppt", ".pptx", ".odp", ".key",
    ".epub", ".mobi" }

PHOTO_VIDEO_EXTENSIONS ==
  { ".jpg", ".jpeg", ".png", ".gif", ".bmp", ".tiff", ".tif",
    ".webp", ".svg", ".raw", ".cr2", ".nef", ".heic", ".heif",
    ".mp4", ".mov", ".avi", ".mkv", ".wmv", ".flv", ".webm", ".m4v",
    ".mp3", ".wav", ".flac", ".aac", ".ogg", ".wma", ".m4a" }

SOURCE_CODE_EXTENSIONS ==
  { ".py", ".js", ".ts", ".jsx", ".tsx", ".java", ".cpp", ".c", ".h",
    ".hpp", ".cs", ".go", ".rs", ".rb", ".php", ".swift", ".kt",
    ".scala", ".r", ".m", ".sql", ".sh", ".bash", ".ps1", ".bat",
    ".cmd", ".yaml", ".yml", ".json", ".xml", ".toml", ".ini", ".cfg",
    ".html", ".css", ".scss", ".less", ".vue", ".svelte" }

SENSITIVE_FILE_PATTERNS ==
  << ".env", ".env.local", ".env.production", ".env.development",
     "_key", "_secret", "_token", "credentials", "secret", "private_key",
     "id_rsa", "id_ed25519", ".pem", ".key", ".pfx", ".p12" >>

GUARDIAN_EXTENSIONS ==
  DOCUMENT_EXTENSIONS \cup PHOTO_VIDEO_EXTENSIONS \cup SOURCE_CODE_EXTENSIONS

D_DRIVE_STRUCTURE ==
  [ apps         |-> "D:\\Apps",
    documents    |-> "D:\\Documents",
    media_photos |-> "D:\\Media\\Photos",
    media_videos |-> "D:\\Media\\Videos",
    media_music  |-> "D:\\Media\\Music",
    projects     |-> "D:\\Projects",
    archive      |-> "D:\\Archive",
    drivemindr   |-> "D:\\DriveMindr" ]

(***************************************************************************)
(* safety.py: SafetyVerdict and SafetyEngine                               *)
(***************************************************************************)
\* SafetyVerdict(original_action, final_action, confidence) with the
\* dataclass defaults
SafetyVerdict(ai_action, ai_confidence) ==
  [ original_action       |-> ai_action,
    final_action          |-> ai_action,
    confidence            |-> ai_confidence,
    is_protected          |-> FALSE,
    is_guardian_protected |-> FALSE,
    is_sensitive          |-> FALSE,
    overridden            |-> FALSE,
    override_reason       |-> "",
    needs_review          |-> FALSE,
    warnings              |-> <<>> ]

was_modified(verdict) == verdict.original_action # verdict.final_action

\* SafetyEngine.__init__: the lowercased owner and pattern tables
protected_owners_lower ==
  {Lower(PROTECTED_OWNERS[i]) : i \in 1..Len(PROTECTED_OWNERS)}

sensitive_patterns_lower ==
  [i \in 1..Len(SENSITIVE_FILE_PATTERNS) |-> Lower(SENSITIVE_FILE_PATTERNS[i])]

\* SafetyEngine._protected: the protected roots as PureWindowsPath values
protected ==
  [i \in 1..Len(PROTECTED_PATHS) |-> CaseFold(PathParts(PROTECTED_PATHS[i]))]

is_path_protected(file_path) ==
  LET normalized == CaseFold(PathParts(file_path))
  IN  \E i \in 1..Len(protected) : IsRelativeTo(normalized, protected[i])

is_delete_action(action) ==
  Upper(action) \in {"DELETE_JUNK", "DELETE_UNUSED", "DELETE"}

\* is_sensitive_file without the lowercasing of the path
is_sensitive_file_case_sensitive(file_path) ==
  LET name == PathName(file_path)
  IN  \E i \in 1..Len(sensitive_patterns_lower) :
         Contains(sensitive_patterns_lower[i], name)

is_sensitive_file(file_path) ==
  LET name == PathName(Lower(file_path))
  IN  \E i \in 1..Len(sensitive_patterns_lower) :
         Contains(sensitive_patterns_lower[i], name)

\* "%.2f" of a confidence
Fmt2(c) ==
  LET h == (c + 500) \div 1000
  IN  ToString(h \div 100) \o "." \o ToString((h % 100) \div 10) \o ToString(h % 10)

\* Layer 1
check_protected_path(file_path, verdict) ==
  IF is_path_protected(file_path)
  THEN [verdict EXCEPT
          !.is_protected    = TRUE,
          !.final_action    = "KEEP",
          !.overridden      = TRUE,
          !.override_reason = "Hardcoded protected path - cannot be modified",
          !.warnings        = Append(@, "PROTECTED PATH: " \o file_path)]
  ELSE verdict

\* Layer 1b comparing the owner as written, not lowercased
check_protected_owner_exact(owner, verdict) ==
  IF Truthy(owner) /\ owner \in {PROTECTED_OWNERS[i] : i \in 1..Len(PROTECTED_OWNERS)}
  THEN [verdict EXCEPT
          !.is_protected    = TRUE,
          !.final_action    = "KEEP",
          !.overridden      = TRUE,
          !.override_reason = "Protected owner: " \o owner,
          !.warnings        = Append(@, "PROTECTED OWNER: " \o owner)]
  ELSE verdict

\* Layer 1b
check_protected_owner(owner, verdict) ==
  IF Truthy(owner) /\ Lower(owner) \in protected_owners_lower
  THEN [verdict EXCEPT
          !.is_protected    = TRUE,
          !.final_action    = "KEEP",
          !.overridden      = TRUE,
          !.override_reason = "Protected owner: " \o owner,
          !.warnings        = Append(@, "PROTECTED OWNER: " \o owner)]
  ELSE verdict

\* Layer 2 comparing the extension as written, not lowercased
check_guardian_case_sensitive(file_path, extension, verdict) ==
  IF ~is_delete_action(verdict.final_action)
  THEN verdict
  ELSE LET ext == IF Truthy(extension) THEN extension ELSE PathSuffix(file_path)
       IN  IF Truthy(ext) /\ ext \in GUARDIAN_EXTENSIONS
           THEN [verdict EXCEPT
                   !.is_guardian_protected = TRUE,
                   !.final_action    = "KEEP",
                   !.overridden      = TRUE,
                   !.override_reason = "Document Guardian - " \o ext
                        \o " files cannot be deleted, only moved/archived",
                   !.needs_review    = TRUE,
                   !.warnings        = Append(@, "GUARDIAN: " \o ext
                        \o " file protected from deletion")]
           ELSE verdict

\* Layer 2 flagging a guardian extension whatever the proposed action
check_guardian_flag_always(file_path, extension, verdict) ==
  LET ext == IF Truthy(extension) THEN extension ELSE PathSuffix(file_path)
  IN  IF Truthy(ext) /\ Lower(ext) \in GUARDIAN_EXTENSIONS
      THEN IF is_delete_action(verdict.final_action)
           THEN [verdict EXCEPT
                   !.is_guardian_protected = TRUE,
                   !.final_action    = "KEEP",
                   !.overridden      = TRUE,
                   !.override_reason = "Document Guardian - " \o ext
                        \o " files cannot be deleted, only moved/archived",
                   !.needs_review    = TRUE,
                   !.warnings        = Append(@, "GUARDIAN: " \o ext
                        \o " file protected from deletion")]
           ELSE [verdict EXCEPT !.is_guardian_protected = TRUE]
      ELSE verdict

\* Layer 2
check_guardian(file_path, extension, verdict) ==
  IF ~is_delete_action(verdict.final_action)
  THEN verdict
  ELSE LET ext == IF Truthy(extension) THEN extension ELSE PathSuffix(file_path)
       IN  IF Truthy(ext) /\ Lower(ext) \in GUARDIAN_EXTENSIONS
           THEN [verdict EXCEPT
                   !.is_guardian_protected = TRUE,
                   !.final_action    = "KEEP",
                   !.overridden      = TRUE,
                   !.override_reason = "Document Guardian - " \o ext
                        \o " files cannot be deleted, only moved/archived",
                   !.needs_review    = TRUE,
                   !.warnings        = Append(@, "GUARDIAN: " \o ext
                        \o " file protected from deletion")]
           ELSE verdict

\* Layer 2b rewriting the override of an earlier layer
check_sensitive_overwriting(file_path, verdict) ==
  IF is_sensitive_file(file_path)
  THEN [verdict EXCEPT
          !.is_sensitive    = TRUE,
          !.warnings        = Append(@, "SENSITIVE: " \o file_path
                                 \o " matches sensitive pattern"),
          !.final_action    = IF is_delete_action(verdict.original_action)
                              THEN "KEEP" ELSE @,
          !.overridden      = IF is_delete_action(verdict.original_action)
                              THEN TRUE ELSE @,
          !.override_reason = IF is_delete_action(verdict.original_action)
                              THEN "Sensitive file - cannot be deleted" ELSE @,
          !.needs_review    = IF is_delete_action(verdict.original_action)
                              THEN TRUE ELSE @]
  ELSE verdict

\* Layer 2b
check_sensitive(file_path, verdict) ==
  IF is_sensitive_file(file_path)
  THEN LET flagged == [verdict EXCEPT
                         !.is_sensitive = TRUE,
                         !.warnings     = Append(@, "SENSITIVE: " \o file_path
                              \o " matches sensitive pattern")]
       IN  IF is_delete_action(flagged.final_action)
           THEN [flagged EXCEPT
                   !.final_action    = "KEEP",
                   !.overridden      = TRUE,
                   !.override_reason = "Sensitive file - cannot be deleted",
                   !.needs_review    = TRUE]
           ELSE flagged
  ELSE verdict

\* Layer 3 blocking a delete at the threshold itself
check_confidence_inclusive(verdict) ==
  IF is_delete_action(verdict.final_action)
     /\ verdict.confidence <= CONFIDENCE_DELETE_MIN
  THEN [verdict EXCEPT
          !.final_action    = "KEEP",
          !.overridden      = TRUE,
          !.override_reason = "Delete requires confidence >= 0.85, got "
                                 \o Fmt2(verdict.confidence),
          !.needs_review    = TRUE]
  ELSE IF verdict.confidence < CONFIDENCE_UNCERTAIN
       THEN [verdict EXCEPT
               !.needs_review = TRUE,
               !.warnings     = Append(@, "UNCERTAIN: confidence "
                                   \o Fmt2(verdict.confidence) \o " < 0.4")]
       ELSE IF verdict.confidence < CONFIDENCE_AUTO_APPROVE
            THEN [verdict EXCEPT !.needs_review = TRUE]
            ELSE verdict

\* Layer 3 asking for review at the auto-approve threshold itself
check_confidence_review_inclusive(verdict) ==
  IF is_delete_action(verdict.final_action)
     /\ verdict.confidence < CONFIDENCE_DELETE_MIN
  THEN [verdict EXCEPT
          !.final_action    = "KEEP",
          !.overridden      = TRUE,
          !.override_reason = "Delete requires confidence >= 0.85, got "
                                 \o Fmt2(verdict.confidence),
          !.needs_review    = TRUE]
  ELSE IF verdict.confidence <= CONFIDENCE_UNCERTAIN
       THEN [verdict EXCEPT
               !.needs_review = TRUE,
               !.warnings     = Append(@, "UNCERTAIN: confidence "
                                   \o Fmt2(verdict.confidence) \o " < 0.4")]
       ELSE IF verdict.confidence <= CONFIDENCE_AUTO_APPROVE
            THEN [verdict EXCEPT !.needs_review = TRUE]
            ELSE verdict

\* Layer 3
check_confidence(verdict) ==
  IF is_delete_action(verdict.final_action)
     /\ verdict.confidence < CONFIDENCE_DELETE_MIN
  THEN [verdict EXCEPT
          !.final_action    = "KEEP",
          !.overridden      = TRUE,
          !.override_reason = "Delete requires confidence >= 0.85, got "
                                 \o Fmt2(verdict.confidence),
          !.needs_review    = TRUE]
  ELSE IF verdict.confidence < CONFIDENCE_UNCERTAIN
       THEN [verdict EXCEPT
               !.needs_review = TRUE,
               !.warnings     = Append(@, "UNCERTAIN: confidence "
                                   \o Fmt2(verdict.confidence) \o " < 0.4")]
       ELSE IF verdict.confidence < CONFIDENCE_AUTO_APPROVE
            THEN [verdict EXCEPT !.needs_review = TRUE]
            ELSE verdict

\* SafetyEngine.check
check(file_path, ai_action, ai_confidence, owner, extension) ==
  LET v0 == SafetyVerdict(ai_action, ai_confidence)
      v1 == check_protected_path(file_path, v0)
  IN  IF v1.is_protected THEN v1
      ELSE LET v1b == check_protected_owner(owner, v1)
           IN  IF v1b.is_protected THEN v1b
               ELSE check_confidence(
                      check_sensitive(file_path,
                        check_guardian(file_path, extension, v1b)))

(***************************************************************************)
(* Inputs: concrete file metadata records (the files table's columns that  *)
(* the modelled code reads), the action alphabet and confidences           *)
(***************************************************************************)
FileRec(path, extension, owner, is_dir) ==
  [ path |-> path, name |-> PathName(path), extension |-> extension,
    owner |-> owner, is_dir |-> is_dir ]

FileUniverse ==
  << FileRec("C:\\Windows\\System32\\notepad.exe", ".exe", "TestUser", 0),
     FileRec("c:\\windows\\Temp\\JUNK.TMP", ".tmp", "TestUser", 0),
     FileRec("C:\\Users\\A\\cache\\old.tmp", ".tmp", "nt authority\\system", 0),
     FileRec("C:\\Users\\A\\Documents\\thesis.docx", ".docx", "TestUser", 0),
     FileRec("C:\\Users\\A\\app\\.env", "", None, 0),
     FileRec("C:\\Users\\A\\cache\\junk.tmp", ".tmp", "TestUser", 0),
     FileRec("C:\\WindowsOld\\setup.log", ".log", "TestUser", 0),
     FileRec("C:\\Users\\A\\My_Key.bin", ".bin", "TestUser", 0),
     FileRec("C:\\Users\\A\\secret.pdf", ".pdf", "TestUser", 0),
     FileRec("C:\\Users\\A\\Pictures\\IMG.JPG", None, "", 0),
     FileRec("C:\\Windows", None, "TestUser", 1),
     FileRec("C:/Program Files/Windows NT/acc.dll", ".dll", "TestUser", 0),
     FileRec("C:\\Users\\A\\Makefile", "", "TestUser", 0),
     FileRec("C:\\Users\\A\\AppDir", None, "TrustedInstaller", 1),
     FileRec("C:\\Users\\A\\Music\\song.MP3", ".MP3", "TestUser", 0),
     FileRec("C:\\Users\\B\\cache\\junk.tmp", ".tmp", "TestUser", 0),
     FileRec("C:\\Users\\C\\cache\\junk.tmp", ".tmp", "TestUser", 0) >>

\* VALID_ACTIONS of classifier.py
VALID_ACTIONS ==
  {"KEEP", "MOVE_APP", "MOVE_DATA", "DELETE_JUNK", "DELETE_UNUSED", "ARCHIVE"}

\* Confidences on both sides of each threshold, and the ends of [0, 1]
ConfValues == {0, 39999, 40000, 69999, 70000, 84999, 85000, 100000}

(***************************************************************************)
(* Bounds                                                                  *)
(***************************************************************************)
\* Largest number of rows of the files table in the classifier runs
MaxFiles == 2

\* Largest batch_size a FileClassifier is constructed with
MaxBatchSize == 2

\* Largest number of INSERTs into classifications that fail during one run
MaxStoreFailures == 1

\* Largest number of batch ids the execution engine hands out
MaxExecutions == 1

\* Rows of FileUniverse in the order the ingester may have put them in the
\* files table: a plain file, a document, a directory, a sensitive file and
\* a file owned by a protected principal
CatalogKeys == <<6, 4, 14, 5, 3>>

VARIABLES
  check_in, check_out, check_pc,   \* SafetyEngine.check: inputs, verdict, position
  files,                           \* Catalog: files table, row id = index
  classifications,                 \* Catalog: classifications, keyed by file_id
  cls_pc,                          \* position of the classify command
  batch_size,                      \* FileClassifier.batch_size
  classified, overridden, errors, batches,   \* FileClassifier counters
  consecutive_failures,            \* local of classify_all
  last_batch,                      \* the batch classify_all processed last
  run_start,                       \* the Catalog as classify_all found it
  user_decisions,                  \* Catalog: user_decisions, keyed by file_id
  action_log,                      \* Catalog: action_log, row id = index
  fs,                              \* the file system: path -> content
  batch_count,                     \* batch ids handed out so far
  summary,                         \* what execute_plan returned last
  plan,                            \* the last execute_plan call: dry_run and the rows read
  undo_summary,                    \* the last undo_batch call, the log ids it reversed
                                   \* in order with how each reversal ended, and what
                                   \* it returned
  parse_in, parse_out, parse_pc,   \* _parse_response: text, results, position
  ollama_host,                     \* OllamaClient.host, None before construction
  requests,                        \* the URLs requests were sent to
  prompt_in, prompt_out, prompt_pc, \* _build_batch_prompt in two runs
  dest_in, dest_out, dest_pc,      \* _compute_dest_path: arguments, result, position
  db_call,                         \* the last write call on the Database and how it ended
  conn                             \* the sqlite3 connection's rowids: those of the files rows,
                                   \* the AUTOINCREMENT sequence, sqlite3_last_insert_rowid

safety_vars == <<check_in, check_out, check_pc>>

catalog_vars == <<files, classifications>>

classifier_vars ==
  <<cls_pc, batch_size, classified, overridden, errors, batches,
    consecutive_failures, last_batch, run_start>>

review_vars == <<user_decisions>>

executor_vars ==
  <<action_log, fs, batch_count, summary, plan, undo_summary>>

parser_vars == <<parse_in, parse_out, parse_pc>>

client_vars == <<ollama_host, requests>>

prompt_vars == <<prompt_in, prompt_out, prompt_pc>>

dest_vars == <<dest_in, dest_out, dest_pc>>

db_vars == <<db_call, conn>>

unit_vars == <<parser_vars, client_vars, prompt_vars, dest_vars, db_vars>>

vars ==
  <<safety_vars, catalog_vars, classifier_vars, review_vars, executor_vars,
    unit_vars>>

(***************************************************************************)
(* Small sequence helpers                                                  *)
(***************************************************************************)
Min(a, b) == IF a <= b THEN a ELSE b

Max(a, b) == IF a >= b THEN a ELSE b

\* The elements of a finite set of integers in ascending order
RECURSIVE SortedSeq(_)
SortedSeq(S) ==
  IF S = {} THEN <<>>
  ELSE LET m == CHOOSE x \in S : \A y \in S : x <= y
       IN  <<m>> \o SortedSeq(S \ {m})

\* The contiguous runs of seq of length at most n, the empty one included
Windows(seq, n) ==
  {SubSeq(seq, a, b) : a \in 1..Len(seq), b \in 0..Len(seq)} \cap
  UNION {[1..k -> {seq[i] : i \in 1..Len(seq)}] : k \in 0..n}

(***************************************************************************)
(* classifier.py: the LLM endpoint and OllamaClient.generate               *)
(***************************************************************************)
\* What can happen to one POST /api/generate
EndpointEvents == {"ok", "unreachable", "http_status", "read_timeout", "bad_body"}

NoExc == ""

\* Python exception classes and their base classes (each class included)
ExcBases ==
  [ URLError        |-> {"URLError", "OSError", "Exception"},
    HTTPError       |-> {"HTTPError", "URLError", "OSError", "Exception"},
    TimeoutError    |-> {"TimeoutError", "OSError", "Exception"},
    ConnectionError |-> {"ConnectionError", "OSError", "Exception"},
    JSONDecodeError |-> {"JSONDecodeError", "ValueError", "Exception"},
    ValueError      |-> {"ValueError", "Exception"} ]

IsInstance(exc, class) == class \in ExcBases[exc]

\* What the with-block of generate raises: urlopen wraps a failed connect in
\* URLError and raises HTTPError (a URLError) on a non-2xx status; a read
\* that exceeds timeout=120 raises the socket's TimeoutError unwrapped;
\* json.loads raises JSONDecodeError on a body that is not JSON.
urlopen_raises(event) ==
  CASE event = "unreachable"  -> "URLError"
    [] event = "http_status"  -> "HTTPError"
    [] event = "read_timeout" -> "TimeoutError"
    [] event = "bad_body"     -> "JSONDecodeError"
    [] OTHER                  -> NoExc

\* The LLM's response text, as far as the orchestrator's reconciliation
\* depends on it: whether it holds a JSON array after cleanup, and the
\* objects of that array
MalformedText == [json_ok |-> FALSE, items |-> <<>>]

\* OllamaClient.generate: the response text, or the exception that leaves it
generate(event, text) ==
  LET raised == urlopen_raises(event)
  IN  IF raised = NoExc THEN [exc |-> NoExc, text |-> text]
      ELSE IF IsInstance(raised, "URLError")
           THEN [exc |-> "ConnectionError", text |-> MalformedText]
           ELSE IF IsInstance(raised, "JSONDecodeError")
                THEN [exc |-> "ValueError", text |-> MalformedText]
                ELSE [exc |-> raised, text |-> MalformedText]

(***************************************************************************)
(* The LLM's possible answers to the prompt for a batch                    *)
(***************************************************************************)
\* What the model may say about one file: nothing, or an object with one of
\* these action tokens and confidences, under the file's path or under the
\* path in another letter case.  The action None is an object without the
\* key "action".
AiAnswers ==
  { [kind |-> "omit",  action |-> "KEEP",          confidence |-> 0],
    [kind |-> "exact", action |-> "DELETE_JUNK",   confidence |-> 100000],
    [kind |-> "exact", action |-> "delete_unused", confidence |-> 84999],
    [kind |-> "exact", action |-> "REMOVE",        confidence |-> 100000],
    [kind |-> "exact", action |-> "",              confidence |-> 100000],
    [kind |-> "exact", action |-> None,            confidence |-> 100000],
    [kind |-> "other_case", action |-> "MOVE_DATA", confidence |-> 100000] }

\* The action tokens of AiAnswers in upper case, tabulated
upper_tokens == [t \in {a.action : a \in AiAnswers} |-> Upper(t)]

\* str(item.get("action", "KEEP")).upper()
action_token(item) ==
  IF item.action = None THEN "KEEP" ELSE upper_tokens[item.action]

\* _parse_response keeping the token the model wrote
ParseItem_as_written(item) ==
  [ path       |-> item.path,
    action     |-> action_token(item),
    confidence |-> Max(0, Min(100000, item.confidence)),
    reason     |-> item.reason,
    category   |-> item.category ]

\* _parse_response: one ClassificationResult per object of the array
ParseItem(item) ==
  [ path       |-> item.path,
    action     |-> IF action_token(item) \in VALID_ACTIONS
                   THEN action_token(item) ELSE "KEEP",
    confidence |-> Max(0, Min(100000, item.confidence)),
    reason     |-> item.reason,
    category   |-> item.category ]

parse_response(text, expected_count) ==
  IF ~text.json_ok THEN <<>>
  ELSE [i \in 1..Len(text.items) |-> ParseItem(text.items[i])]

(***************************************************************************)
(* classifier.py: _parse_response on the characters of the response text   *)
(***************************************************************************)
\* The characters str.strip() and the regex class \s remove
Whitespace == {" ", "\t", "\n", "\r"}

RECURSIVE LStrip(_)
LStrip(s) ==
  IF s # "" /\ CharAt(s, 1) \in Whitespace THEN LStrip(SubSeq(s, 2, Len(s)))
  ELSE s

RECURSIVE RStrip(_)
RStrip(s) ==
  IF s # "" /\ CharAt(s, Len(s)) \in Whitespace
  THEN RStrip(SubSeq(s, 1, Len(s) - 1))
  ELSE s

\* str.strip()
Strip(s) == LStrip(RStrip(s))

StartsWith(s, prefix) ==
  Len(s) >= Len(prefix) /\ SubSeq(s, 1, Len(prefix)) = prefix

EndsWith(s, suffix) ==
  Len(s) >= Len(suffix) /\ SubSeq(s, Len(s) - Len(suffix) + 1, Len(s)) = suffix

\* The marker of a markdown code fence, three grave accents.  A TLA+ string
\* cannot hold a grave accent; the tilde, which no modelled text uses
\* otherwise, stands for it.
Fence == "~~~"

\* re.sub(r"^(fence)(?:json)?\s*", "", s): a fence at the very start goes,
\* with the word json and the white space after it
strip_leading_fence(s) ==
  IF ~StartsWith(s, Fence) THEN s
  ELSE LET rest == SubSeq(s, 4, Len(s))
       IN  LStrip(IF StartsWith(rest, "json") THEN SubSeq(rest, 5, Len(rest))
                  ELSE rest)

\* re.sub(r"\s*(fence)$", "", s): a fence at the very end goes, with the
\* white space before it
strip_trailing_fence(s) ==
  IF EndsWith(s, Fence) THEN RStrip(SubSeq(s, 1, Len(s) - 3)) ELSE s

\* What re.search returns when the pattern is nowhere in the text
NoMatch == None

\* re.search(r"\[.*\]", s, re.DOTALL).group(0): .* is greedy and matches
\* every character, so the match runs from the first [ to the last ]
search_array(s) ==
  LET opens == {i \in 1..Len(s) : CharAt(s, i) = "["}
  IN  IF opens = {} THEN NoMatch
      ELSE LET first  == CHOOSE i \in opens : \A j \in opens : i <= j
               closes == {j \in (first + 1)..Len(s) : CharAt(s, j) = "]"}
           IN  IF closes = {} THEN NoMatch
               ELSE SubSeq(s, first, CHOOSE j \in closes : \A k \in closes : k <= j)

\* The index of the first character at or after i that is not white space
RECURSIVE SkipSpaces(_, _)
SkipSpaces(s, i) ==
  IF i <= Len(s) /\ CharAt(s, i) \in Whitespace THEN SkipSpaces(s, i + 1) ELSE i

\* re.sub(r",\s*\]", "]", s) from index i on: each comma that only white
\* space separates from a ] goes, with that white space
RECURSIVE remove_trailing_commas(_, _)
remove_trailing_commas(s, i) ==
  LET hits == {k \in i..Len(s) :
                 /\ CharAt(s, k) = ","
                 /\ SkipSpaces(s, k + 1) <= Len(s)
                 /\ CharAt(s, SkipSpaces(s, k + 1)) = "]"}
  IN  IF hits = {} THEN SubSeq(s, i, Len(s))
      ELSE LET k == CHOOSE h \in hits : \A g \in hits : h <= g
           IN  SubSeq(s, i, k - 1) \o "]"
                 \o remove_trailing_commas(s, SkipSpaces(s, k + 1) + 1)

\* Lines 187-198 of _parse_response: the text handed to json.loads
clean_response(text) ==
  LET unfenced == Strip(strip_trailing_fence(strip_leading_fence(Strip(text))))
      match    == search_array(unfenced)
  IN  remove_trailing_commas(IF match # NoMatch THEN match ELSE unfenced, 1)

(***************************************************************************)
(* json: the documents of the modelled responses                           *)
(***************************************************************************)
\* Largest number of objects in the JSON array of a modelled response text
MaxItems == 2

\* The objects the modelled arrays are made of: a plain one, one whose
\* action is in lower case, one with brackets inside a string, one with a
\* comma and a bracket inside a string, and the latter with the comma gone
JsonItems ==
  { [ path |-> "C:\\Users\\A\\cache\\junk.tmp", action |-> "DELETE_JUNK",
      confidence |-> 100000, reason |-> "r", category |-> "c" ],
    [ path |-> "C:\\Users\\A\\Documents\\thesis.docx", action |-> "delete_unused",
      confidence |-> 84999, reason |-> "r", category |-> "c" ],
    [ path |-> "C:\\Users\\A\\cache\\old.tmp", action |-> "MOVE_DATA",
      confidence |-> 100000, reason |-> "old [tmp] cache", category |-> "c" ],
    [ path |-> "C:\\Users\\A\\cache\\old.tmp", action |-> "MOVE_DATA",
      confidence |-> 100000, reason |-> "tmp,]", category |-> "c" ],
    [ path |-> "C:\\Users\\A\\cache\\old.tmp", action |-> "MOVE_DATA",
      confidence |-> 100000, reason |-> "tmp]", category |-> "c" ] }

JsonArrays == UNION {[1..n -> JsonItems] : n \in 0..MaxItems}

\* The text of a JSON string: backslash and double quote escaped
RECURSIVE JsonEscape(_, _)
JsonEscape(s, i) ==
  IF i > Len(s) THEN ""
  ELSE (IF CharAt(s, i) = "\\" THEN "\\\\"
        ELSE IF CharAt(s, i) = "\"" THEN "\\\"" ELSE CharAt(s, i))
       \o JsonEscape(s, i + 1)

JsonString(s) == "\"" \o JsonEscape(s, 1) \o "\""

\* The text of a confidence as a JSON number
JsonNumber(c) ==
  LET frac == c % 100000
      pad  == IF frac < 10 THEN "0000" ELSE IF frac < 100 THEN "000"
              ELSE IF frac < 1000 THEN "00" ELSE IF frac < 10000 THEN "0" ELSE ""
  IN  ToString(c \div 100000) \o "." \o
      (IF frac = 0 THEN "0" ELSE pad \o ToString(frac))

\* json.dumps of one classification object
DumpsItem(item) ==
  "{\"path\": " \o JsonString(item.path)
    \o ", \"action\": " \o JsonString(item.action)
    \o ", \"confidence\": " \o JsonNumber(item.confidence)
    \o ", \"reason\": " \o JsonString(item.reason)
    \o ", \"category\": " \o JsonString(item.category) \o "}"

RECURSIVE DumpsItems(_, _)
DumpsItems(items, k) ==
  IF k > Len(items) THEN ""
  ELSE (IF k > 1 THEN ", " ELSE "") \o DumpsItem(items[k]) \o DumpsItems(items, k + 1)

\* json.dumps of an array of classification objects
Dumps(items) == "[" \o DumpsItems(items, 1) \o "]"

\* The texts of the modelled arrays, each with the array it denotes
json_documents ==
  [d \in {Dumps(items) : items \in JsonArrays} |->
     CHOOSE items \in JsonArrays : Dumps(items) = d]

\* json.loads followed by the isinstance(raw, list) test: the array a text
\* denotes.  The modelled texts are built from the arrays of JsonArrays and
\* the wrappers of Wrappers, and among the texts clean_response makes of
\* them exactly those of json_documents are JSON; every other one ends in
\* JSONDecodeError (extra data after the first value, or no value at all).
json_loads(cleaned) ==
  IF cleaned \in DOMAIN json_documents
  THEN [json_ok |-> TRUE, items |-> json_documents[cleaned]]
  ELSE MalformedText

\* _parse_response on the response text
parse_response_text(text, expected_count) ==
  parse_response(json_loads(clean_response(text)), expected_count)

\* What may surround the array in a response: prose before and after, with
\* and without square brackets of its own, and a code fence
Wrappers ==
  [ prefix : {"", "Here is the classification:\n", "Results [batch 1]:\n", " \n"},
    fence  : {"", Fence, Fence \o "json"},
    suffix : {"", "\nLet me know if you need more.", "\nSee note [1].", "\n\n"} ]

\* The response text that wraps the array text body
Wrap(w, body) ==
  w.prefix \o (IF w.fence = "" THEN body
               ELSE w.fence \o "\n" \o body \o "\n" \o Fence) \o w.suffix

\* The paths of FileUniverse in lower case, tabulated
lower_paths ==
  [p \in {FileUniverse[i].path : i \in 1..Len(FileUniverse)} |-> Lower(p)]

AnswerItem(f, a) ==
  [ path       |-> IF a.kind = "exact" THEN f.path ELSE lower_paths[f.path],
    action     |-> a.action,
    confidence |-> a.confidence,
    reason     |-> "r",
    category   |-> "c" ]

RECURSIVE AnswerItems(_, _, _, _)
AnswerItems(fls, ids, choice, k) ==
  IF k > Len(ids) THEN <<>>
  ELSE (IF choice[k].kind = "omit" THEN <<>>
        ELSE <<AnswerItem(fls[ids[k]], choice[k])>>)
       \o AnswerItems(fls, ids, choice, k + 1)

Responses(fls, ids) ==
  {MalformedText} \cup
  {[json_ok |-> TRUE, items |-> AnswerItems(fls, ids, choice, 1)] :
      choice \in [1..Len(ids) -> AiAnswers]}

\* The confidences that reach the Safety Engine from the orchestrator
ParsedConfidences ==
  {0} \cup {Max(0, Min(100000, a.confidence)) : a \in AiAnswers}

\* SafetyEngine.check tabulated over the files of FileUniverse, the valid
\* actions and the tokens of AiAnswers, and the parsed confidences:
\* checked(...) is check(...) looked up
check_table ==
  [ t \in { <<FileUniverse[i].path, a, c, FileUniverse[i].owner,
              FileUniverse[i].extension>> :
              i \in 1..Len(FileUniverse),
              a \in VALID_ACTIONS \cup {upper_tokens[x] : x \in DOMAIN upper_tokens},
              c \in ParsedConfidences } |->
      check(t[1], t[2], t[3], t[4], t[5]) ]

checked(file_path, ai_action, ai_confidence, owner, extension) ==
  check_table[<<file_path, ai_action, ai_confidence, owner, extension>>]

(***************************************************************************)
(* classifier.py: FileClassifier                                           *)
(***************************************************************************)
\* _get_unclassified_batch: ids of the non-directory files without a
\* classification, ascending, at most n of them
get_unclassified_batch(fls, cls, n) ==
  LET ids == SortedSeq({i \in 1..Len(fls) :
                          fls[i].is_dir = 0 /\ i \notin DOMAIN cls})
  IN  SubSeq(ids, 1, Min(n, Len(ids)))

\* What result_map.get(path) returns for a path that is not a key
NoResult ==
  [path |-> None, action |-> None, confidence |-> 0, reason |-> None,
   category |-> None]

\* result_map.get matching the path without regard to letter case
result_map_get_casefold(ai_results, path) ==
  LET hits == {i \in 1..Len(ai_results) : Lower(ai_results[i].path) = Lower(path)}
  IN  IF hits = {} THEN NoResult
      ELSE ai_results[CHOOSE i \in hits : \A j \in hits : j <= i]

\* result_map.get(path): the last result with that path, or NoResult
result_map_get(ai_results, path) ==
  LET hits == {i \in 1..Len(ai_results) : ai_results[i].path = path}
  IN  IF hits = {} THEN NoResult
      ELSE ai_results[CHOOSE i \in hits : \A j \in hits : j <= i]

\* _store_classification: upsert on file_id
store_classification(cls, data) == (data.file_id :> data) @@ cls

\* The loop body storing the model's action instead of the verdict's
apply_safety_one_unchecked(fls, ai_results, st, id, store_fails) ==
  LET f       == fls[id]
      found   == result_map_get(ai_results, f.path)
      missing == found = NoResult
      ai      == IF missing
                 THEN [path |-> f.path, action |-> "KEEP", confidence |-> 0,
                       reason |-> "No AI classification returned",
                       category |-> "unknown"]
                 ELSE found
      verdict == checked(f.path, ai.action, ai.confidence, f.owner, f.extension)
      classification ==
        [ file_id         |-> id,
          action          |-> ai.action,
          confidence      |-> ai.confidence,
          reason          |-> ai.reason,
          category        |-> ai.category,
          overridden      |-> IF verdict.overridden THEN 1 ELSE 0,
          override_reason |-> IF verdict.override_reason # ""
                              THEN verdict.override_reason ELSE None ]
      stored  == id \notin store_fails
  IN  [ cls        |-> IF stored THEN store_classification(st.cls, classification)
                       ELSE st.cls,
        classified |-> st.classified + (IF stored THEN 1 ELSE 0),
        overridden |-> st.overridden + (IF verdict.overridden THEN 1 ELSE 0),
        errors     |-> st.errors + (IF missing THEN 1 ELSE 0)
                                 + (IF stored THEN 0 ELSE 1) ]

\* The body of the for-loop of _apply_safety_and_store for one file; st
\* holds the classifications table and the counters; store_fails holds the
\* file ids whose INSERT raises (the transaction rolls back, the except
\* clause counts one error and the loop goes on)
apply_safety_one(fls, ai_results, st, id, store_fails) ==
  LET f       == fls[id]
      found   == result_map_get(ai_results, f.path)
      missing == found = NoResult
      ai      == IF missing
                 THEN [path |-> f.path, action |-> "KEEP", confidence |-> 0,
                       reason |-> "No AI classification returned",
                       category |-> "unknown"]
                 ELSE found
      verdict == checked(f.path, ai.action, ai.confidence, f.owner, f.extension)
      classification ==
        [ file_id         |-> id,
          action          |-> verdict.final_action,
          confidence      |-> ai.confidence,
          reason          |-> ai.reason,
          category        |-> ai.category,
          overridden      |-> IF verdict.overridden THEN 1 ELSE 0,
          override_reason |-> IF verdict.override_reason # ""
                              THEN verdict.override_reason ELSE None ]
      stored  == id \notin store_fails
  IN  [ cls        |-> IF stored THEN store_classification(st.cls, classification)
                       ELSE st.cls,
        classified |-> st.classified + (IF stored THEN 1 ELSE 0),
        overridden |-> st.overridden + (IF verdict.overridden THEN 1 ELSE 0),
        errors     |-> st.errors + (IF missing THEN 1 ELSE 0)
                                 + (IF stored THEN 0 ELSE 1) ]

RECURSIVE apply_safety_and_store(_, _, _, _, _, _)
apply_safety_and_store(fls, ids, ai_results, st, k, store_fails) ==
  IF k > Len(ids) THEN st
  ELSE apply_safety_and_store(fls, ids, ai_results,
                              apply_safety_one(fls, ai_results, st, ids[k],
                                               store_fails),
                              k + 1, store_fails)

\* _classify_batch counting a failed batch as one error
classify_batch_one_error(fls, ids, st, event, text, store_fails) ==
  LET g == generate(event, text)
  IN  IF g.exc = NoExc
      THEN [ exc |-> NoExc,
             st  |-> apply_safety_and_store(fls, ids,
                        parse_response(g.text, Len(ids)), st, 1, store_fails) ]
      ELSE IF IsInstance(g.exc, "ConnectionError") \/ IsInstance(g.exc, "ValueError")
           THEN [exc |-> NoExc, st |-> [st EXCEPT !.errors = @ + 1]]
           ELSE [exc |-> g.exc, st |-> st]

\* _classify_batch: the tables and counters after the call, and the
\* exception that escapes it (NoExc when it returns)
classify_batch(fls, ids, st, event, text, store_fails) ==
  LET g == generate(event, text)
  IN  IF g.exc = NoExc
      THEN [ exc |-> NoExc,
             st  |-> apply_safety_and_store(fls, ids,
                        parse_response(g.text, Len(ids)), st, 1, store_fails) ]
      ELSE IF IsInstance(g.exc, "ConnectionError") \/ IsInstance(g.exc, "ValueError")
           THEN [exc |-> NoExc, st |-> [st EXCEPT !.errors = @ + Len(ids)]]
           ELSE [exc |-> g.exc, st |-> st]

\* The Catalog's possible behaviours during the stores of one batch: every
\* INSERT succeeds, or (while the run has seen fewer than MaxStoreFailures
\* failed INSERTs) the INSERT for one file of the batch raises
StoreFailures(ids, seen) ==
  {{}} \cup (IF seen < MaxStoreFailures
             THEN {{ids[k]} : k \in 1..Len(ids)} ELSE {})

\* The files of a batch for which the response text holds no object under
\* the file's exact path
Unanswered(fls, ids, text) ==
  {ids[k] : k \in {j \in 1..Len(ids) :
     ~text.json_ok \/ \A i \in 1..Len(text.items) :
                         text.items[i].path # fls[ids[j]].path}}

\* The files of a batch for which the response text holds an object under
\* the file's exact path whose action is missing or is, in upper case, none
\* of the valid actions
Coerced(fls, ids, text) ==
  {ids[k] : k \in {j \in 1..Len(ids) :
     text.json_ok /\ \E i \in 1..Len(text.items) :
        /\ text.items[i].path = fls[ids[j]].path
        /\ \/ text.items[i].action = None
           \/ upper_tokens[text.items[i].action] \notin VALID_ACTIONS}}

\* classify_batch_direct(files) without precomputed results: the tables and
\* counters after the call, and the exception that escapes it (generate's
\* exceptions are not caught here)
classify_batch_direct(fls, ids, st, event, text, store_fails) ==
  LET g == generate(event, text)
  IN  IF g.exc = NoExc
      THEN [ exc |-> NoExc,
             st  |-> apply_safety_and_store(fls, ids,
                        parse_response(g.text, Len(ids)), st, 1, store_fails) ]
      ELSE [exc |-> g.exc, st |-> st]

\* The lists of rows classify_batch_direct is called with: runs of
\* non-directory rows of the files table, at most MaxBatchSize long
DirectBatches(fls) ==
  {ids \in Windows([i \in 1..Len(fls) |-> i], MaxBatchSize) :
     ids # <<>> /\ \A k \in 1..Len(ids) : fls[ids[k]].is_dir = 0}

(***************************************************************************)
(* Initial states                                                          *)
(***************************************************************************)
NoBatch ==
  [ ids |-> <<>>, event |-> "none", unanswered |-> {}, store_failed |-> {},
    coerced |-> {}, empty_array |-> FALSE,
    rows_before |-> <<>>, classified_before |-> 0, errors_before |-> 0,
    failures_before |-> 0 ]

NoRun ==
  [ rows |-> <<>>, unclassified |-> 0, always_unreachable |-> TRUE,
    store_failures |-> 0 ]

SafetyIdle ==
  /\ check_in = [file |-> FileUniverse[1], ai_action |-> "KEEP", ai_confidence |-> 0]
  /\ check_out = SafetyVerdict("KEEP", 0)
  /\ check_pc = "idle"

ClassifierIdle ==
  /\ cls_pc = "idle"
  /\ batch_size = 0
  /\ classified = 0
  /\ overridden = 0
  /\ errors = 0
  /\ batches = 0
  /\ consecutive_failures = 0
  /\ last_batch = NoBatch
  /\ run_start = NoRun

\* No call of _parse_response, no OllamaClient, no prompt built
ParserIdle ==
  /\ parse_in = [text |-> "", items |-> <<>>]
  /\ parse_out = <<>>
  /\ parse_pc = "idle"

ClientIdle ==
  /\ ollama_host = None
  /\ requests = {}

PromptIdle ==
  /\ prompt_in = <<>>
  /\ prompt_out = <<>>
  /\ prompt_pc = "idle"

DestIdle ==
  /\ dest_in = [source_path |-> "", category |-> ""]
  /\ dest_out = None
  /\ dest_pc = "idle"

\* No write call on the Database yet
NoCall ==
  [ op |-> None, records |-> <<>>, raise_after |-> {}, raised |-> FALSE,
    returned |-> {} ]

\* A connection to a new database file: no row, no rowid handed out
NewConnection == [ids |-> <<>>, sequence |-> 0, last_insert_rowid |-> 0]

DbIdle == db_call = NoCall /\ conn = NewConnection

UnitsIdle == ParserIdle /\ ClientIdle /\ PromptIdle /\ DestIdle /\ DbIdle

\* No decision yet
NothingReviewed == user_decisions = <<>>

\* What _summary returns for a fresh ExecutionEngine
NoSummary ==
  [ batch_id |-> None, moved |-> 0, deleted |-> 0, archived |-> 0,
    symlinked |-> 0, skipped |-> 0, errors |-> 0 ]

\* The regular files of the files table, each with its own content
ScannedFiles(fls) ==
  [p \in {fls[i].path : i \in {j \in 1..Len(fls) : fls[j].is_dir = 0}} |-> p]

\* No execute_plan call yet
NoPlan == [called |-> FALSE, dry_run |-> FALSE, rows |-> <<>>]

\* No undo_batch call yet
NoUndo ==
  [ batch_id |-> None, dry_run |-> FALSE, order |-> <<>>, outcomes |-> <<>>,
    undone |-> 0, skipped |-> 0,
    failed |-> 0 ]

\* Nothing executed yet: the scanned files are on disk, the log is empty
NothingExecuted ==
  /\ action_log = <<>>
  /\ fs = ScannedFiles(files)
  /\ batch_count = 0
  /\ summary = NoSummary
  /\ plan = NoPlan
  /\ undo_summary = NoUndo

\* The files table after a scan; no classification yet
CatalogScanned ==
  /\ files \in {[i \in 1..Len(ks) |-> FileUniverse[ks[i]]] :
                  ks \in Windows(CatalogKeys, MaxFiles)}
  /\ classifications = <<>>

(***************************************************************************)
(* SafetyEngine.check as an operation on drawn inputs                      *)
(***************************************************************************)
InitSafety ==
  /\ check_in \in [ file : {FileUniverse[i] : i \in 1..Len(FileUniverse)},
                    ai_action : VALID_ACTIONS,
                    ai_confidence : ConfValues ]
  /\ check_out = SafetyVerdict(check_in.ai_action, check_in.ai_confidence)
  /\ check_pc = "call"
  /\ files = <<>>
  /\ classifications = <<>>
  /\ ClassifierIdle
  /\ NothingReviewed
  /\ NothingExecuted
  /\ UnitsIdle

Check ==
  /\ check_pc = "call"
  /\ check_out' = check(check_in.file.path, check_in.ai_action,
                        check_in.ai_confidence, check_in.file.owner,
                        check_in.file.extension)
  /\ check_pc' = "ret"
  /\ UNCHANGED <<unit_vars, check_in, catalog_vars, classifier_vars, review_vars,
                 executor_vars>>

NextSafety == Check

SpecSafety == InitSafety /\ [][NextSafety]_vars

(***************************************************************************)
(* _parse_response as an operation on drawn response texts                 *)
(***************************************************************************)
InitParse ==
  /\ parse_in \in {[text |-> Wrap(w, Dumps(items)), items |-> items] :
                     w \in Wrappers, items \in JsonArrays}
  /\ parse_out = <<>>
  /\ parse_pc = "call"
  /\ SafetyIdle
  /\ files = <<>>
  /\ classifications = <<>>
  /\ ClassifierIdle
  /\ NothingReviewed
  /\ NothingExecuted
  /\ ClientIdle
  /\ DestIdle
  /\ DbIdle
  /\ PromptIdle

ParseResponse ==
  /\ parse_pc = "call"
  /\ parse_out' = parse_response_text(parse_in.text, Len(parse_in.items))
  /\ parse_pc' = "ret"
  /\ UNCHANGED <<parse_in, client_vars, prompt_vars, dest_vars, db_vars, safety_vars, catalog_vars,
                 classifier_vars, review_vars, executor_vars>>

NextParse == ParseResponse

SpecParse == InitParse /\ [][NextParse]_vars

(***************************************************************************)
(* OllamaClient: construction and the requests it sends                    *)
(***************************************************************************)
\* config.OLLAMA_HOST
OLLAMA_HOST == "http://127.0.0.1:11434"

\* network.ALLOWED_ENDPOINTS as the URL prefixes of the endpoints
ALLOWED_ENDPOINTS == {"http://127.0.0.1:11434", "http://localhost:11434"}

\* A URL addresses one of the allowed endpoints: the endpoint itself or a
\* path on it
IsLoopbackUrl(url) ==
  \E endpoint \in ALLOWED_ENDPOINTS :
     url = endpoint \/ StartsWith(url, endpoint \o "/")

\* The host arguments OllamaClient is constructed with: the default, the
\* default with a trailing slash, localhost, a machine of the local network,
\* a remote service, and a remote name that begins like localhost
HostArguments ==
  { OLLAMA_HOST,
    OLLAMA_HOST \o "/",
    "http://localhost:11434",
    "http://192.168.1.20:11434",
    "https://api.example.com/",
    "http://localhost.example.com:11434" }

\* host.rstrip("/")
RECURSIVE RStripSlash(_)
RStripSlash(s) ==
  IF s # "" /\ CharAt(s, Len(s)) = "/"
  THEN RStripSlash(SubSeq(s, 1, Len(s) - 1))
  ELSE s

\* The requests sent stay within MaxRequests different ones
MaxRequests == 2

\* urllib.request.urlopen(Request(url, method=...)) in the method `by` of
\* the client: the request goes out whether or not anything answers
urlopen(sent, by, method, url) ==
  LET req == [by |-> by, method |-> method, url |-> url]
  IN  IF Cardinality(sent \cup {req}) <= MaxRequests
      THEN sent \cup {req}
      ELSE sent

InitClient ==
  /\ ClientIdle
  /\ DestIdle
  /\ DbIdle
  /\ ParserIdle
  /\ PromptIdle
  /\ SafetyIdle
  /\ files = <<>>
  /\ classifications = <<>>
  /\ ClassifierIdle
  /\ NothingReviewed
  /\ NothingExecuted

\* OllamaClient(host=...): no check of the host
NewOllamaClient ==
  /\ \E host \in HostArguments : ollama_host' = RStripSlash(host)
  /\ UNCHANGED <<requests, parser_vars, prompt_vars, dest_vars, db_vars, safety_vars, catalog_vars,
                 classifier_vars, review_vars, executor_vars>>

\* OllamaClient.is_available: GET {host}/api/tags
IsAvailable ==
  /\ ollama_host # None
  /\ requests' = urlopen(requests, "is_available", "GET",
                       ollama_host \o "/api/tags")
  /\ UNCHANGED <<ollama_host, parser_vars, prompt_vars, dest_vars, db_vars, safety_vars,
                 catalog_vars, classifier_vars, review_vars, executor_vars>>

\* OllamaClient.has_model: GET {host}/api/tags
HasModel ==
  /\ ollama_host # None
  /\ requests' = urlopen(requests, "has_model", "GET",
                       ollama_host \o "/api/tags")
  /\ UNCHANGED <<ollama_host, parser_vars, prompt_vars, dest_vars, db_vars, safety_vars,
                 catalog_vars, classifier_vars, review_vars, executor_vars>>

\* OllamaClient.generate: POST {host}/api/generate
Generate ==
  /\ ollama_host # None
  /\ requests' = urlopen(requests, "generate", "POST",
                       ollama_host \o "/api/generate")
  /\ UNCHANGED <<ollama_host, parser_vars, prompt_vars, dest_vars, db_vars, safety_vars,
                 catalog_vars, classifier_vars, review_vars, executor_vars>>

NextClient ==
  \/ NewOllamaClient
  \/ IsAvailable
  \/ HasModel
  \/ Generate

SpecClient == InitClient /\ [][NextClient]_vars

(***************************************************************************)
(* _build_batch_prompt over two runs of the same batch                     *)
(***************************************************************************)
\* str(v) inside an f-string for a column that may be NULL
Fmt(v) == IF v = None THEN "None" ELSE v

\* The six columns _build_batch_prompt reads
PromptColumns(f) ==
  [ path |-> f.path, name |-> f.name, extension |-> f.extension,
    size_bytes |-> f.size_bytes, modified |-> f.modified,
    accessed |-> f.accessed ]

\* prompt_line with a column beyond the six
prompt_line_with_owner(f) ==
  "- path: " \o f.path \o ", name: " \o f.name \o ", ext: " \o Fmt(f.extension)
    \o ", size: " \o ToString(f.size_bytes) \o " bytes, modified: "
    \o Fmt(f.modified) \o ", accessed: " \o Fmt(f.accessed)
    \o ", owner: " \o Fmt(f.owner)

\* The line of one file
prompt_line(f) ==
  "- path: " \o f.path \o ", name: " \o f.name \o ", ext: " \o Fmt(f.extension)
    \o ", size: " \o ToString(f.size_bytes) \o " bytes, modified: "
    \o Fmt(f.modified) \o ", accessed: " \o Fmt(f.accessed)

\* "\n".join(lines) for lines = ["Classify these files:\n", line, ...]
RECURSIVE JoinLines(_, _)
JoinLines(rows, k) ==
  IF k > Len(rows) THEN ""
  ELSE "\n" \o prompt_line(rows[k]) \o JoinLines(rows, k + 1)

build_batch_prompt(rows) == "Classify these files:\n" \o JoinLines(rows, 1)

\* The metadata the scanner recorded for two files
PromptMetadata ==
  { [ path |-> "C:\\Users\\A\\app\\.env", name |-> ".env", extension |-> "",
      size_bytes |-> 18, modified |-> "2024-03-01T10:00:00",
      accessed |-> None ],
    [ path |-> "C:\\Users\\A\\Pictures\\IMG.JPG", name |-> "IMG.JPG",
      extension |-> None, size_bytes |-> 2048, modified |-> None,
      accessed |-> "2025-01-15T08:30:00" ] }

\* What the files hold on disk
FileContents == {"PASSWORD=swordfish", "API_KEY=hunter2"}

\* Rows of the files table with the columns the prompt builder does not
\* read (owner, created, is_readonly), and the content behind each path
PromptRows ==
  { [ path |-> m.path, name |-> m.name, extension |-> m.extension,
      size_bytes |-> m.size_bytes, modified |-> m.modified,
      accessed |-> m.accessed, owner |-> o.owner, created |-> o.created,
      is_readonly |-> o.is_readonly, content |-> c ] :
      m \in PromptMetadata,
      o \in { [owner |-> "TestUser", created |-> "2023-12-24T18:00:00",
               is_readonly |-> 0],
              [owner |-> "NT AUTHORITY\\SYSTEM", created |-> None,
               is_readonly |-> 1] },
      c \in FileContents }

\* The longest batch a prompt is built for
MaxPromptFiles == 1

PromptBatches == UNION {[1..n -> PromptRows] : n \in 0..MaxPromptFiles}

InitPrompt ==
  /\ prompt_in \in PromptBatches \X PromptBatches
  /\ prompt_out = <<>>
  /\ prompt_pc = "call"
  /\ ClientIdle
  /\ DestIdle
  /\ DbIdle
  /\ ParserIdle
  /\ SafetyIdle
  /\ files = <<>>
  /\ classifications = <<>>
  /\ ClassifierIdle
  /\ NothingReviewed
  /\ NothingExecuted

\* Each of the two runs builds the prompt of its batch
BuildBatchPrompt ==
  /\ prompt_pc = "call"
  /\ prompt_out' = <<build_batch_prompt(prompt_in[1]),
                     build_batch_prompt(prompt_in[2])>>
  /\ prompt_pc' = "ret"
  /\ UNCHANGED <<prompt_in, client_vars, parser_vars, dest_vars, db_vars,
                 safety_vars,
                 catalog_vars, classifier_vars, review_vars, executor_vars>>

NextPrompt == BuildBatchPrompt

SpecPrompt == InitPrompt /\ [][NextPrompt]_vars

(***************************************************************************)
(* The classify command: FileClassifier(...).classify_all()                *)
(***************************************************************************)
InitClassify ==
  /\ SafetyIdle
  /\ CatalogScanned
  /\ ClassifierIdle
  /\ NothingReviewed
  /\ NothingExecuted
  /\ UnitsIdle

\* FileClassifier.__init__ and the entry of classify_all
ClassifyAllStart ==
  /\ cls_pc = "idle"
  /\ \E n \in 1..MaxBatchSize : batch_size' = n
  /\ classified' = 0
  /\ overridden' = 0
  /\ errors' = 0
  /\ batches' = 0
  /\ consecutive_failures' = 0
  /\ last_batch' = NoBatch
  /\ run_start' = [ rows |-> classifications,
                    unclassified |->
                      Len(get_unclassified_batch(files, classifications, Len(files))),
                    always_unreachable |-> TRUE,
                    store_failures |-> 0 ]
  /\ cls_pc' = "loop"
  /\ UNCHANGED <<unit_vars, safety_vars, catalog_vars, review_vars, executor_vars>>

\* One pass of the while-loop that finds no unclassified file: break and
\* return the summary
ClassifyAllReturn ==
  /\ cls_pc = "loop"
  /\ get_unclassified_batch(files, classifications, batch_size) = <<>>
  /\ cls_pc' = "returned"
  /\ UNCHANGED <<unit_vars, safety_vars, catalog_vars, batch_size, classified, overridden,
                 errors, batches, consecutive_failures, last_batch, run_start,
                 review_vars, executor_vars>>

\* One pass of the while-loop that processes a batch
ClassifyAllBatch ==
  /\ cls_pc = "loop"
  /\ LET ids == get_unclassified_batch(files, classifications, batch_size)
         st0 == [ cls |-> classifications, classified |-> classified,
                  overridden |-> overridden, errors |-> errors ]
     IN  /\ ids # <<>>
         /\ \E event \in EndpointEvents :
            \E text \in (IF event = "ok" THEN Responses(files, ids) ELSE {MalformedText}) :
            \E store_fails \in (IF event = "ok" THEN StoreFailures(ids, run_start.store_failures)
                                ELSE {{}}) :
              LET r == classify_batch(files, ids, st0, event, text, store_fails)
              IN  /\ batches' = batches + 1
                  /\ last_batch' =
                       [ ids |-> ids, event |-> event,
                         unanswered |-> Unanswered(files, ids, text),
                         store_failed |-> store_fails,
                         coerced |-> Coerced(files, ids, text),
                         empty_array |-> text.json_ok /\ text.items = <<>>,
                         rows_before |-> classifications,
                         classified_before |-> classified,
                         errors_before |-> errors,
                         failures_before |-> consecutive_failures ]
                  /\ run_start' = [run_start EXCEPT
                                     !.always_unreachable = @ /\ event = "unreachable",
                                     !.store_failures = @ + Cardinality(store_fails)]
                  /\ classifications' = r.st.cls
                  /\ classified' = r.st.classified
                  /\ overridden' = r.st.overridden
                  /\ errors' = r.st.errors
                  /\ IF r.exc # NoExc
                     THEN /\ cls_pc' = "raised"
                          /\ UNCHANGED consecutive_failures
                     ELSE IF r.st.classified = classified
                          THEN /\ consecutive_failures' = consecutive_failures + 1
                               /\ cls_pc' = IF consecutive_failures + 1 >= 3
                                            THEN "returned" ELSE "loop"
                          ELSE /\ consecutive_failures' = 0
                               /\ cls_pc' = "loop"
  /\ UNCHANGED <<unit_vars, safety_vars, files, batch_size, review_vars, executor_vars>>

\* The command ends: the summary is printed (or the exception reported) and
\* the FileClassifier is dropped
ClassifyExit ==
  /\ cls_pc \in {"returned", "raised"}
  /\ cls_pc' = "idle"
  /\ batch_size' = 0
  /\ classified' = 0
  /\ overridden' = 0
  /\ errors' = 0
  /\ batches' = 0
  /\ consecutive_failures' = 0
  /\ last_batch' = NoBatch
  /\ run_start' = NoRun
  /\ UNCHANGED <<unit_vars, safety_vars, catalog_vars, review_vars, executor_vars>>

\* FileClassifier(db).classify_batch_direct(rows) outside a classify run;
\* the classifier made for the call is dropped after it
ClassifyBatchDirect ==
  /\ cls_pc = "idle"
  /\ \E ids \in DirectBatches(files) :
     \E event \in EndpointEvents :
     \E text \in (IF event = "ok" THEN Responses(files, ids) ELSE {MalformedText}) :
     \E store_fails \in (IF event = "ok" THEN StoreFailures(ids, 0) ELSE {{}}) :
        LET st0 == [ cls |-> classifications, classified |-> 0,
                     overridden |-> 0, errors |-> 0 ]
        IN  classifications' =
              classify_batch_direct(files, ids, st0, event, text, store_fails).st.cls
  /\ UNCHANGED <<unit_vars, safety_vars, files, classifier_vars, review_vars,
                 executor_vars>>

NextClassify ==
  \/ ClassifyAllStart
  \/ ClassifyAllReturn
  \/ ClassifyAllBatch
  \/ ClassifyExit
  \/ ClassifyBatchDirect

SpecClassify == InitClassify /\ [][NextClassify]_vars

(***************************************************************************)
(* pathlib.Path as the execution engine uses it                            *)
(***************************************************************************)
\* base / part / part ...
RECURSIVE JoinParts(_, _)
JoinParts(base, parts) ==
  IF parts = <<>> THEN base
  ELSE JoinParts(base \o "\\" \o Head(parts), Tail(parts))

\* Path(s).stem: the name without its suffix
PathStem(s) ==
  LET name == PathName(s)
  IN  SubSeq(name, 1, Len(name) - Len(PathSuffix(s)))

(***************************************************************************)
(* The file system, keyed by path: a regular file with its bytes, a        *)
(* directory with its tree, or a junction with its target                  *)
(***************************************************************************)
\* AppMigrator.target_root
APPS_ROOT == "D:\\Apps"

\* The directories of the scanned volume: the rows of FileUniverse with
\* is_dir = 1
DirectoryPaths == {"C:\\Windows", "C:\\Users\\A\\AppDir"}

\* What the disk holds for a directory first seen at path: the directory
\* with everything below it
Tree(path) == "tree(" \o path \o ")"

Trees == {Tree(p) : p \in DirectoryPaths}

\* What the disk holds for a junction (a directory symlink off Windows)
\* that points to target
Junction(target) == "junction(" \o target \o ")"

\* The junctions migrate_app can create, each with its target
JunctionTargets ==
  [c \in {Junction(JoinParts(APPS_ROOT, <<PathName(p)>>)) : p \in DirectoryPaths}
     |-> CHOOSE t \in {JoinParts(APPS_ROOT, <<PathName(p)>>) : p \in DirectoryPaths} :
           c = Junction(t)]

\* Path.is_symlink() or Path.is_junction()
is_junction(fsys, path) ==
  path \in DOMAIN fsys /\ fsys[path] \in DOMAIN JunctionTargets

\* Path.exists(): a junction is followed to its target
exists(fsys, path) ==
  /\ path \in DOMAIN fsys
  /\ fsys[path] \in DOMAIN JunctionTargets
       => JunctionTargets[fsys[path]] \in DOMAIN fsys

\* Path.is_dir()
is_dir(fsys, path) ==
  /\ exists(fsys, path)
  /\ fsys[path] \in Trees \cup DOMAIN JunctionTargets

\* Path.is_file()
is_file(fsys, path) ==
  /\ exists(fsys, path)
  /\ fsys[path] \notin Trees \cup DOMAIN JunctionTargets

\* Path.unlink(), shutil.rmtree(path), rmdir of a junction: the entry at
\* path goes
remove(fsys, path) == [p \in DOMAIN fsys \ {path} |-> fsys[p]]

\* shutil.move(src, dst) of a regular file or a directory; an existing
\* regular file at dst is replaced
shutil_move(fsys, src, dst) ==
  [p \in (DOMAIN fsys \ {src}) \cup {dst} |->
     IF p = dst THEN fsys[src] ELSE fsys[p]]

\* What a file holds after a copy that damaged it
Damaged(content) == "damaged(" \o content \o ")"

\* shutil.move(src, dst) whose copy to the other drive damaged the bytes
shutil_move_damaging(fsys, src, dst) ==
  [p \in (DOMAIN fsys \ {src}) \cup {dst} |->
     IF p = dst THEN Damaged(fsys[src]) ELSE fsys[p]]

\* zipfile.ZipFile(archive_path, "w").write(src, src.name)
zip_write(fsys, src, archive_path) ==
  (archive_path :> ("zip(" \o PathName(src) \o ":" \o fsys[src] \o ")")) @@ fsys

(***************************************************************************)
(* undo.py: UndoManager                                                    *)
(***************************************************************************)
DEFAULT_TRASH_DIR == "D:\\DriveMindr\\trash"

\* generate_batch_id: a fresh id per call; n counts the calls
generate_batch_id(n) == "batch_" \o ToString(n)

\* file_checksum: the digest of the content, None when open() fails (the
\* file is missing, or the path is a directory)
file_checksum(fsys, path) ==
  IF is_file(fsys, path) THEN "sha256(" \o fsys[path] \o ")" ELSE None

\* log_action: INSERT INTO action_log
log_action(log, file_id, action, source_path, dest_path, batch_id, checksum_before, checksum_after) ==
  Append(log, [ id              |-> Len(log) + 1,
                file_id         |-> file_id,
                action          |-> action,
                source_path     |-> source_path,
                dest_path       |-> dest_path,
                checksum_before |-> checksum_before,
                checksum_after  |-> checksum_after,
                batch_id        |-> batch_id,
                undone          |-> 0 ])

\* The while-loop of get_trash_path and of _execute_archive: the first
\* base\stem_<counter><suffix> that does not exist
RECURSIVE FirstFree(_, _, _, _, _)
FirstFree(fsys, base, stem, suffix, counter) ==
  LET dest == JoinParts(base, <<stem \o "_" \o ToString(counter) \o suffix>>)
  IN  IF ~exists(fsys, dest) THEN dest
      ELSE FirstFree(fsys, base, stem, suffix, counter + 1)

\* get_trash_path without the collision loop
get_trash_path_no_counter(fsys, original_path, batch_id) ==
  JoinParts(JoinParts(DEFAULT_TRASH_DIR, <<batch_id>>),
            <<PathName(original_path)>>)

get_trash_path(fsys, original_path, batch_id) ==
  LET base == JoinParts(DEFAULT_TRASH_DIR, <<batch_id>>)
      dest == JoinParts(base, <<PathName(original_path)>>)
  IN  IF ~exists(fsys, dest) THEN dest
      ELSE FirstFree(fsys, base, PathStem(original_path),
                     PathSuffix(original_path), 1)

\* get_batch_actions without AND undone = 0
get_batch_actions_with_undone(log, batch_id) ==
  LET ids == SortedSeq({i \in 1..Len(log) : log[i].batch_id = batch_id})
  IN  [k \in 1..Len(ids) |-> log[ids[Len(ids) + 1 - k]]]

\* get_batch_actions with ORDER BY id ASC
get_batch_actions_oldest_first(log, batch_id) ==
  LET ids == SortedSeq({i \in 1..Len(log) :
                          log[i].batch_id = batch_id /\ log[i].undone = 0})
  IN  [k \in 1..Len(ids) |-> log[ids[k]]]

\* get_batch_actions: the entries of the batch not yet undone, newest first
get_batch_actions(log, batch_id) ==
  LET ids == SortedSeq({i \in 1..Len(log) :
                          log[i].batch_id = batch_id /\ log[i].undone = 0})
  IN  [k \in 1..Len(ids) |-> log[ids[Len(ids) + 1 - k]]]

\* _mark_undone as DELETE FROM action_log WHERE id = log_id
mark_undone_deletes_row(log, log_id) ==
  SelectSeq(log, LAMBDA entry : entry.id # log_id)

\* _mark_undone: UPDATE action_log SET undone = 1 WHERE id = log_id
mark_undone(log, log_id) ==
  [i \in 1..Len(log) |-> IF log[i].id = log_id
                         THEN [log[i] EXCEPT !.undone = 1] ELSE log[i]]

\* _mark_undone whose failed UPDATE is not rolled back
finish_undo_keeps_failed_update(st, entry) ==
  IF entry.id \in st.mark_fails
  THEN [st EXCEPT !.log = mark_undone(@, entry.id), !.raised = TRUE]
  ELSE [st EXCEPT !.log = mark_undone(@, entry.id), !.ok = TRUE]

\* The end of a live reversal: _mark_undone, whose UPDATE raises for the
\* log ids in st.mark_fails
finish_undo(st, entry) ==
  IF entry.id \in st.mark_fails THEN [st EXCEPT !.raised = TRUE]
  ELSE [st EXCEPT !.log = mark_undone(@, entry.id), !.ok = TRUE]

\* shutil.move(dest, source) of a reversal: it raises for the log ids in
\* st.move_fails (the operating system refuses the move), and when a
\* directory would replace a regular file
move_back(st, entry) ==
  IF \/ entry.id \in st.move_fails
     \/ is_dir(st.fs, entry.dest_path) /\ is_file(st.fs, entry.source_path)
  THEN [st EXCEPT !.raised = TRUE]
  ELSE finish_undo([st EXCEPT !.fs = shutil_move(@, entry.dest_path,
                                                 entry.source_path)],
                   entry)

\* _undo_move and _undo_delete: the file goes back from dest to source,
\* replacing what is at source.  st holds the file system, the log and the
\* failures of this call; ok is the value returned, raised tells that an
\* exception left the reversal instead.
undo_move(st, entry, dry_run) ==
  IF entry.dest_path = None \/ ~exists(st.fs, entry.dest_path)
  THEN [st EXCEPT !.ok = FALSE]
  ELSE IF dry_run THEN [st EXCEPT !.ok = TRUE]
  ELSE move_back(st, entry)

undo_delete(st, entry, dry_run) ==
  IF entry.dest_path = None \/ ~exists(st.fs, entry.dest_path)
  THEN [st EXCEPT !.ok = FALSE]
  ELSE IF dry_run THEN [st EXCEPT !.ok = TRUE]
  ELSE move_back(st, entry)

\* _undo_archive: dest.unlink()
undo_archive(st, entry, dry_run) ==
  IF entry.dest_path = None \/ ~exists(st.fs, entry.dest_path)
  THEN [st EXCEPT !.ok = FALSE]
  ELSE IF dry_run THEN [st EXCEPT !.ok = TRUE]
  ELSE IF entry.id \in st.move_fails THEN [st EXCEPT !.raised = TRUE]
  ELSE finish_undo([st EXCEPT !.fs = remove(@, entry.dest_path)], entry)

\* _undo_symlink: a junction at source is unlinked, a directory at source
\* is removed with rmdir, which raises because the directory is not empty;
\* then the data at dest, if any, moves back
undo_symlink(st, entry, dry_run) ==
  IF entry.dest_path = None THEN [st EXCEPT !.ok = FALSE]
  ELSE IF dry_run THEN [st EXCEPT !.ok = TRUE]
  ELSE IF exists(st.fs, entry.source_path)
          /\ ~is_junction(st.fs, entry.source_path)
          /\ is_dir(st.fs, entry.source_path)
       THEN [st EXCEPT !.raised = TRUE]
  ELSE LET unlinked == IF exists(st.fs, entry.source_path)
                          /\ is_junction(st.fs, entry.source_path)
                       THEN [st EXCEPT !.fs = remove(@, entry.source_path)]
                       ELSE st
       IN  IF exists(unlinked.fs, entry.dest_path)
           THEN move_back(unlinked, entry)
           ELSE finish_undo(unlinked, entry)

\* _undo_single
undo_single(st, entry, dry_run) ==
  IF entry.action = "MOVED" THEN undo_move(st, entry, dry_run)
  ELSE IF entry.action = "DELETED" THEN undo_delete(st, entry, dry_run)
  ELSE IF entry.action = "ARCHIVED" THEN undo_archive(st, entry, dry_run)
  ELSE IF entry.action = "SYMLINKED" THEN undo_symlink(st, entry, dry_run)
  ELSE [st EXCEPT !.ok = FALSE]

\* The for-loop of undo_batch over the entries read at its start; u holds
\* the file system, the log, the counters and the failures of this call,
\* and in order the log ids handed to _undo_single so far and how each
\* call ended: it returned True, returned False, or raised
RECURSIVE undo_entries(_, _, _, _)
undo_entries(u, actions, dry_run, k) ==
  IF k > Len(actions) THEN u
  ELSE LET r == undo_single([ fs |-> u.fs, log |-> u.log, ok |-> FALSE,
                              raised |-> FALSE, mark_fails |-> u.mark_fails,
                              move_fails |-> u.move_fails ],
                            actions[k], dry_run)
       IN  undo_entries([ u EXCEPT
                            !.fs      = r.fs,
                            !.log     = r.log,
                            !.order   = Append(@, actions[k].id),
                            !.outcomes = Append(@, IF r.raised THEN "raised"
                                                   ELSE IF r.ok THEN "True"
                                                   ELSE "False"),
                            !.undone  = @ + (IF r.ok THEN 1 ELSE 0),
                            !.skipped = @ + (IF ~r.ok /\ ~r.raised THEN 1 ELSE 0),
                            !.failed  = @ + (IF r.raised THEN 1 ELSE 0) ],
                        actions, dry_run, k + 1)

\* undo_batch; faults holds the log ids whose UPDATE raises (mark_fails)
\* and those whose file operation raises (move_fails)
undo_batch(fsys, log, batch_id, dry_run, faults) ==
  undo_entries([ fs |-> fsys, log |-> log, order |-> <<>>, outcomes |-> <<>>,
                 undone |-> 0, skipped |-> 0,
                 failed |-> 0, mark_fails |-> faults.mark_fails,
                 move_fails |-> faults.move_fails ],
               get_batch_actions(log, batch_id), dry_run, 1)

\* What can go wrong during one undo_batch: nothing, the UPDATE of one
\* entry, or the file operation of one entry
UndoFaults(actions, dry_run) ==
  {[mark_fails |-> {}, move_fails |-> {}]} \cup
  (IF dry_run THEN {}
   ELSE {[mark_fails |-> {actions[k].id}, move_fails |-> {}] :
           k \in 1..Len(actions)} \cup
        {[mark_fails |-> {}, move_fails |-> {actions[k].id}] :
           k \in 1..Len(actions)})

(***************************************************************************)
(* database.py: the review operations of the Catalog                       *)
(***************************************************************************)
\* save_user_decision: upsert on file_id
save_user_decision(decs, file_id, decision, new_action) ==
  (file_id :> [decision |-> decision, new_action |-> new_action]) @@ decs

\* save_batch_decisions: the same decision, no replacement action, for
\* every listed file
save_batch_decisions(decs, file_ids, decision) ==
  [id \in file_ids |-> [decision |-> decision, new_action |-> None]] @@ decs

\* get_files_by_action: the classified files whose stored action is action
get_files_by_action(cls, action) ==
  {id \in DOMAIN cls : cls[id].action = action}

\* get_approved_actions: files joined with classifications and user
\* decisions where the decision is APPROVE or CHANGE, in file id order;
\* final_action is the replacement for CHANGE, else the classification's
get_approved_actions(fls, cls, decs) ==
  LET ids == SortedSeq({id \in DOMAIN cls \cap DOMAIN decs :
                          decs[id].decision \in {"APPROVE", "CHANGE"}})
  IN  [k \in 1..Len(ids) |->
         [ id           |-> ids[k],
           path         |-> fls[ids[k]].path,
           extension    |-> fls[ids[k]].extension,
           final_action |-> IF decs[ids[k]].decision = "CHANGE"
                            THEN decs[ids[k]].new_action
                            ELSE cls[ids[k]].action ]]

(***************************************************************************)
(* dashboard.py: the decisions the review page issues                      *)
(***************************************************************************)
ACTION_TABS ==
  <<"DELETE_JUNK", "DELETE_UNUSED", "MOVE_DATA", "MOVE_APP", "ARCHIVE", "KEEP">>

\* The (decision, new_action) pairs of the four buttons of a file shown
\* under the tab of action
FileButtons(action) ==
  {<<"APPROVE", None>>, <<"REJECT", None>>, <<"PROTECT", "KEEP">>} \cup
  {<<"CHANGE", ACTION_TABS[i]>> : i \in {j \in 1..Len(ACTION_TABS) :
                                          ACTION_TABS[j] # action}}

(***************************************************************************)
(* executor.py                                                             *)
(***************************************************************************)
\* The month directory of _execute_archive, now.strftime("%Y-%m")
ArchiveMonth == "2024-06"

MusicExtensions == {".mp3", ".wav", ".flac", ".aac", ".ogg", ".wma", ".m4a"}

VideoExtensions ==
  {".mp4", ".mov", ".avi", ".mkv", ".wmv", ".flv", ".webm", ".m4v"}

categorize_destination(path, extension) ==
  LET ext        == IF Truthy(extension) THEN Lower(extension) ELSE ""
      path_lower == Lower(path)
  IN  IF ext \in DOCUMENT_EXTENSIONS THEN "documents"
      ELSE IF ext \in PHOTO_VIDEO_EXTENSIONS
           THEN IF ext \in MusicExtensions THEN "media_music"
                ELSE IF ext \in VideoExtensions THEN "media_videos"
                ELSE "media_photos"
      ELSE IF ext \in SOURCE_CODE_EXTENSIONS THEN "projects"
      ELSE IF \/ Contains("project", path_lower)
              \/ Contains("repos", path_lower)
              \/ Contains("github", path_lower)
           THEN "projects"
      ELSE "documents"

\* _compute_dest_path: the category folder plus the source's components
\* after the drive and the first two folders
compute_dest_path(source_path, category) ==
  LET parts == PathParts(source_path)
      base  == IF category \in DOMAIN D_DRIVE_STRUCTURE
               THEN D_DRIVE_STRUCTURE[category]
               ELSE D_DRIVE_STRUCTURE.documents
  IN  IF Len(parts) > 3
      THEN JoinParts(base, SubSeq(parts, 4, Len(parts)))
      ELSE JoinParts(base, <<PathName(source_path)>>)

\* ExecutionEngine.__init__: the counters, with the file system and the
\* action log the engine works on
NewEngine(fsys, log) ==
  [ fs |-> fsys, log |-> log, moved |-> 0, deleted |-> 0, archived |-> 0,
    symlinked |-> 0, skipped |-> 0, errors |-> 0 ]

\* _summary
Summary(eng, batch_id) ==
  [ batch_id |-> batch_id, moved |-> eng.moved, deleted |-> eng.deleted,
    archived |-> eng.archived, symlinked |-> eng.symlinked,
    skipped |-> eng.skipped, errors |-> eng.errors ]

(***************************************************************************)
(* symlinks.py: AppMigrator                                                *)
(***************************************************************************)
\* migrate_app without the return of the dry-run branch
migrate_app_no_dry_run(eng, source, file_id, batch_id, dry_run, log_fails, corrupt) ==
  LET target == JoinParts(APPS_ROOT, <<PathName(source)>>)
  IN  IF ~exists(eng.fs, source) THEN [eng |-> eng, success |-> FALSE]
      ELSE IF ~is_dir(eng.fs, source) THEN [eng |-> eng, success |-> FALSE]
      ELSE IF exists(eng.fs, target) THEN [eng |-> eng, success |-> FALSE]
      ELSE [eng |-> [eng EXCEPT
                       !.fs  = (source :> Junction(target))
                               @@ (target :> eng.fs[source])
                               @@ remove(eng.fs, source),
                       !.log = log_action(@, file_id, "SYMLINKED", source,
                                          target, batch_id, None, None)],
            success |-> TRUE]

\* migrate_app on the engine's file system and log; success is
\* result["success"].  The copy and the removal of the original succeed;
\* create_junction returns False for the file ids in corrupt, and the tree
\* is moved back.  For a file id in log_fails the INSERT of the SYMLINKED
\* entry raises after the junction is made: the exception leaves migrate_app
\* and execute_plan counts the error that a False success also counts.
migrate_app(eng, source, file_id, batch_id, dry_run, log_fails, corrupt) ==
  LET target == JoinParts(APPS_ROOT, <<PathName(source)>>)
  IN  IF ~exists(eng.fs, source) THEN [eng |-> eng, success |-> FALSE]
      ELSE IF ~is_dir(eng.fs, source) THEN [eng |-> eng, success |-> FALSE]
      ELSE IF exists(eng.fs, target) THEN [eng |-> eng, success |-> FALSE]
      ELSE IF dry_run THEN [eng |-> eng, success |-> TRUE]
      ELSE IF file_id \in corrupt THEN [eng |-> eng, success |-> FALSE]
      ELSE LET linked_fs ==
                 (source :> Junction(target)) @@ (target :> eng.fs[source])
                 @@ remove(eng.fs, source)
           IN  IF file_id \in log_fails
               THEN [eng |-> [eng EXCEPT !.fs = linked_fs], success |-> FALSE]
               ELSE [eng |-> [eng EXCEPT
                                !.fs  = linked_fs,
                                !.log = log_action(@, file_id, "SYMLINKED",
                                                   source, target, batch_id,
                                                   None, None)],
                     success |-> TRUE]

\* The branch of _execute_move for MOVE_APP on a directory
execute_move_app(eng, file_id, source_path, batch_id, dry_run, log_fails, corrupt) ==
  LET result == migrate_app(eng, source_path, file_id, batch_id, dry_run,
                            log_fails, corrupt)
  IN  IF result.success
      THEN [result.eng EXCEPT !.symlinked = @ + 1]
      ELSE [result.eng EXCEPT !.errors = @ + 1]

\* _execute_move without the comparison of the two checksums
execute_move_unverified(eng, file_id, source_path, extension, action, batch_id, dry_run, log_fails, corrupt) ==
  LET category == categorize_destination(source_path, extension)
      dest     == compute_dest_path(source_path, category)
  IN  IF action = "MOVE_APP" /\ is_dir(eng.fs, source_path)
      THEN execute_move_app(eng, file_id, source_path, batch_id, dry_run,
                            log_fails, corrupt)
      ELSE IF dry_run THEN [eng EXCEPT !.moved = @ + 1]
      ELSE IF ~exists(eng.fs, source_path) THEN [eng EXCEPT !.skipped = @ + 1]
      ELSE LET checksum_before == file_checksum(eng.fs, source_path)
               moved_fs        ==
                 IF file_id \in corrupt
                 THEN shutil_move_damaging(eng.fs, source_path, dest)
                 ELSE shutil_move(eng.fs, source_path, dest)
               checksum_after  == file_checksum(moved_fs, dest)
           IN  IF file_id \in log_fails
               THEN [eng EXCEPT !.fs = moved_fs, !.errors = @ + 1]
               ELSE [eng EXCEPT
                       !.fs    = moved_fs,
                       !.log   = log_action(@, file_id, "MOVED", source_path,
                                            dest, batch_id, checksum_before,
                                            checksum_after),
                       !.moved = @ + 1]

\* _execute_move.  log_fails holds the file ids whose INSERT into
\* action_log raises: the exception leaves _execute_move after the file has
\* moved and execute_plan's except clause counts one error.  corrupt holds
\* the file ids whose bytes arrive damaged at the destination (for a
\* directory both checksums are None and nothing is compared).
execute_move(eng, file_id, source_path, extension, action, batch_id, dry_run, log_fails, corrupt) ==
  LET category == categorize_destination(source_path, extension)
      dest     == compute_dest_path(source_path, category)
  IN  IF action = "MOVE_APP" /\ is_dir(eng.fs, source_path)
      THEN execute_move_app(eng, file_id, source_path, batch_id, dry_run,
                            log_fails, corrupt)
      ELSE IF dry_run THEN [eng EXCEPT !.moved = @ + 1]
      ELSE IF ~exists(eng.fs, source_path) THEN [eng EXCEPT !.skipped = @ + 1]
      ELSE LET checksum_before == file_checksum(eng.fs, source_path)
               moved_fs        ==
                 IF file_id \in corrupt
                 THEN shutil_move_damaging(eng.fs, source_path, dest)
                 ELSE shutil_move(eng.fs, source_path, dest)
               checksum_after  == file_checksum(moved_fs, dest)
           IN  IF Truthy(checksum_before) /\ Truthy(checksum_after)
                  /\ checksum_before # checksum_after
               THEN [eng EXCEPT !.fs = shutil_move(moved_fs, dest, source_path),
                                !.errors = @ + 1]
               ELSE IF file_id \in log_fails
                    THEN [eng EXCEPT !.fs = moved_fs, !.errors = @ + 1]
                    ELSE [eng EXCEPT
                            !.fs    = moved_fs,
                            !.log   = log_action(@, file_id, "MOVED", source_path,
                                                 dest, batch_id, checksum_before,
                                                 checksum_after),
                            !.moved = @ + 1]

\* _execute_delete removing the file instead of moving it
execute_delete_unlink(eng, file_id, source_path, batch_id, dry_run, log_fails) ==
  LET trash_dest == get_trash_path(eng.fs, source_path, batch_id)
  IN  IF dry_run THEN [eng EXCEPT !.deleted = @ + 1]
      ELSE IF ~exists(eng.fs, source_path) THEN [eng EXCEPT !.skipped = @ + 1]
      ELSE [eng EXCEPT
              !.fs      = remove(eng.fs, source_path),
              !.log     = log_action(@, file_id, "DELETED", source_path,
                                     trash_dest, batch_id,
                                     file_checksum(eng.fs, source_path), None),
              !.deleted = @ + 1]

\* _execute_delete without the test for the source: shutil.move raises
\* for a missing source and execute_plan counts the error
execute_delete_missing_raises(eng, file_id, source_path, batch_id, dry_run, log_fails) ==
  LET trash_dest == get_trash_path(eng.fs, source_path, batch_id)
  IN  IF dry_run THEN [eng EXCEPT !.deleted = @ + 1]
      ELSE IF ~exists(eng.fs, source_path) THEN [eng EXCEPT !.errors = @ + 1]
      ELSE LET checksum_before == file_checksum(eng.fs, source_path)
               moved_fs        == shutil_move(eng.fs, source_path, trash_dest)
           IN  IF file_id \in log_fails
               THEN [eng EXCEPT !.fs = moved_fs, !.errors = @ + 1]
               ELSE [eng EXCEPT
                       !.fs      = moved_fs,
                       !.log     = log_action(@, file_id, "DELETED", source_path,
                                              trash_dest, batch_id,
                                              checksum_before, None),
                       !.deleted = @ + 1]

\* _execute_delete: the file goes to the trash directory of the batch
execute_delete(eng, file_id, source_path, batch_id, dry_run, log_fails) ==
  LET trash_dest == get_trash_path(eng.fs, source_path, batch_id)
  IN  IF dry_run THEN [eng EXCEPT !.deleted = @ + 1]
      ELSE IF ~exists(eng.fs, source_path) THEN [eng EXCEPT !.skipped = @ + 1]
      ELSE LET checksum_before == file_checksum(eng.fs, source_path)
               moved_fs        == shutil_move(eng.fs, source_path, trash_dest)
           IN  IF file_id \in log_fails
               THEN [eng EXCEPT !.fs = moved_fs, !.errors = @ + 1]
               ELSE [eng EXCEPT
                       !.fs      = moved_fs,
                       !.log     = log_action(@, file_id, "DELETED", source_path,
                                              trash_dest, batch_id,
                                              checksum_before, None),
                       !.deleted = @ + 1]

\* _execute_archive that writes over <stem>.zip and removes the original
execute_archive_replacing(eng, file_id, source_path, batch_id, dry_run, log_fails) ==
  LET archive_dir  == JoinParts(D_DRIVE_STRUCTURE.archive, <<ArchiveMonth>>)
      archive_path == JoinParts(archive_dir, <<PathStem(source_path) \o ".zip">>)
  IN  IF dry_run THEN [eng EXCEPT !.archived = @ + 1]
      ELSE IF ~exists(eng.fs, source_path) THEN [eng EXCEPT !.skipped = @ + 1]
      ELSE [eng EXCEPT
              !.fs       = remove(zip_write(eng.fs, source_path, archive_path),
                                  source_path),
              !.log      = log_action(@, file_id, "ARCHIVED", source_path,
                                      archive_path, batch_id,
                                      file_checksum(eng.fs, source_path), None),
              !.archived = @ + 1]

\* _execute_archive: a zip of the file is added; the original stays
execute_archive(eng, file_id, source_path, batch_id, dry_run, log_fails) ==
  LET archive_dir  == JoinParts(D_DRIVE_STRUCTURE.archive, <<ArchiveMonth>>)
      first_path   == JoinParts(archive_dir, <<PathStem(source_path) \o ".zip">>)
  IN  IF dry_run THEN [eng EXCEPT !.archived = @ + 1]
      ELSE IF ~exists(eng.fs, source_path) THEN [eng EXCEPT !.skipped = @ + 1]
      ELSE LET checksum_before == file_checksum(eng.fs, source_path)
               archive_path    ==
                 IF ~exists(eng.fs, first_path) THEN first_path
                 ELSE FirstFree(eng.fs, archive_dir, PathStem(source_path),
                                ".zip", 1)
               zipped_fs       == zip_write(eng.fs, source_path, archive_path)
           IN  IF file_id \in log_fails
               THEN [eng EXCEPT !.fs = zipped_fs, !.errors = @ + 1]
               ELSE [eng EXCEPT
                       !.fs       = zipped_fs,
                       !.log      = log_action(@, file_id, "ARCHIVED", source_path,
                                               archive_path, batch_id,
                                               checksum_before, None),
                       !.archived = @ + 1]

\* The dispatch of execute_plan with ARCHIVE handled by the delete branch
execute_row_archive_deletes(eng, row, batch_id, dry_run, log_fails, corrupt) ==
  IF row.final_action \in {"MOVE_DATA", "MOVE_APP"}
  THEN execute_move(eng, row.id, row.path, row.extension, row.final_action,
                    batch_id, dry_run, log_fails, corrupt)
  ELSE IF row.final_action \in {"DELETE_JUNK", "DELETE_UNUSED", "ARCHIVE"}
       THEN execute_delete(eng, row.id, row.path, batch_id, dry_run, log_fails)
       ELSE [eng EXCEPT !.skipped = @ + 1]

\* The body of the for-loop of execute_plan for one row of the plan
execute_row(eng, row, batch_id, dry_run, log_fails, corrupt) ==
  IF row.final_action \in {"MOVE_DATA", "MOVE_APP"}
  THEN execute_move(eng, row.id, row.path, row.extension, row.final_action,
                    batch_id, dry_run, log_fails, corrupt)
  ELSE IF row.final_action \in {"DELETE_JUNK", "DELETE_UNUSED"}
       THEN execute_delete(eng, row.id, row.path, batch_id, dry_run, log_fails)
       ELSE IF row.final_action = "ARCHIVE"
            THEN execute_archive(eng, row.id, row.path, batch_id, dry_run,
                                 log_fails)
            ELSE [eng EXCEPT !.skipped = @ + 1]

\* The for-loop of execute_plan left after its first row
execute_rows_first_only(eng, approved, batch_id, dry_run, log_fails, corrupt, k) ==
  IF k > Len(approved) THEN eng
  ELSE execute_row(eng, approved[k], batch_id, dry_run, log_fails, corrupt)

\* The for-loop of execute_plan without its try/except: the first row that
\* fails ends the loop
RECURSIVE execute_rows_until_error(_, _, _, _, _, _, _)
execute_rows_until_error(eng, approved, batch_id, dry_run, log_fails, corrupt, k) ==
  IF k > Len(approved) \/ eng.errors > 0 THEN eng
  ELSE execute_rows_until_error(execute_row(eng, approved[k], batch_id, dry_run,
                                            log_fails, corrupt),
                                approved, batch_id, dry_run, log_fails, corrupt,
                                k + 1)

\* The for-loop of execute_plan
RECURSIVE execute_rows(_, _, _, _, _, _, _)
execute_rows(eng, approved, batch_id, dry_run, log_fails, corrupt, k) ==
  IF k > Len(approved) THEN eng
  ELSE execute_rows(execute_row(eng, approved[k], batch_id, dry_run,
                                log_fails, corrupt),
                    approved, batch_id, dry_run, log_fails, corrupt, k + 1)

\* The Catalog's possible behaviours during the log writes of one plan:
\* every INSERT succeeds, or the INSERT for one entry of the plan raises
LogFailures(approved, dry_run) ==
  {{}} \cup (IF dry_run THEN {}
             ELSE {{approved[k].id} : k \in 1..Len(approved)})

\* What can go wrong during one plan: nothing, the log INSERT for one
\* entry, or the bytes of one moved file
Faults(approved, dry_run) ==
  {[log_fails |-> f, corrupt |-> {}] : f \in LogFailures(approved, dry_run)}
  \cup (IF dry_run THEN {}
        ELSE {[log_fails |-> {}, corrupt |-> {approved[k].id}] :
                k \in {j \in 1..Len(approved) :
                         approved[j].final_action \in {"MOVE_DATA", "MOVE_APP"}}})

\* execute_plan as a function of what it reads: the plan approved, the
\* disk and the log, as the n-th batch; eng is the engine after the loop,
\* summary the value returned
execute_plan(fsys, log, approved, n, dry_run, faults) ==
  LET eng0 == NewEngine(fsys, log)
  IN  IF approved = <<>>
      THEN [eng |-> eng0, summary |-> Summary(eng0, None)]
      ELSE LET eng == execute_rows(eng0, approved, generate_batch_id(n),
                                   dry_run, faults.log_fails, faults.corrupt, 1)
           IN  [eng |-> eng, summary |-> Summary(eng, generate_batch_id(n))]

\* A run in which nothing goes wrong
NoFaults == [log_fails |-> {}, corrupt |-> {}]

(***************************************************************************)
(* Review and execution of a classified catalog                            *)
(***************************************************************************)
\* The model's answer the reviewed catalogs were classified with
DeleteJunkCertain ==
  [kind |-> "exact", action |-> "DELETE_JUNK", confidence |-> 100000]

\* Rows of FileUniverse in the reviewed catalogs
ReviewKeys == <<3, 6>>

\* The Catalog after scan and a classify run in which the LLM called every
\* file DELETE_JUNK at confidence 1.0: the rows are what
\* _apply_safety_and_store stores for that response
CatalogClassified ==
  /\ files \in {[i \in 1..Len(ks) |-> FileUniverse[ks[i]]] :
                  ks \in Windows(ReviewKeys, MaxFiles) \ {<<>>}}
  /\ classifications =
       LET ids  == get_unclassified_batch(files, <<>>, Len(files))
           text == [ json_ok |-> TRUE,
                     items   |-> AnswerItems(files, ids,
                                   [k \in 1..Len(ids) |-> DeleteJunkCertain], 1) ]
           st0  == [cls |-> <<>>, classified |-> 0, overridden |-> 0, errors |-> 0]
       IN  apply_safety_and_store(files, ids, parse_response(text, Len(ids)),
                                  st0, 1, {}).cls

InitExecute ==
  /\ SafetyIdle
  /\ CatalogClassified
  /\ ClassifierIdle
  /\ NothingReviewed
  /\ NothingExecuted
  /\ UnitsIdle

\* One of the four buttons of a file on the review page
SaveUserDecision ==
  /\ \E file_id \in DOMAIN classifications :
     \E button \in FileButtons(classifications[file_id].action) :
        user_decisions' =
          save_user_decision(user_decisions, file_id, button[1], button[2])
  /\ UNCHANGED <<unit_vars, safety_vars, catalog_vars, classifier_vars, executor_vars>>

\* Approve All / Reject All of a tab that lists at least one file
SaveBatchDecisions ==
  /\ \E i \in 1..Len(ACTION_TABS) :
     \E decision \in {"APPROVE", "REJECT"} :
        LET file_ids == get_files_by_action(classifications, ACTION_TABS[i])
        IN  /\ file_ids # {}
            /\ user_decisions' =
                 save_batch_decisions(user_decisions, file_ids, decision)
  /\ UNCHANGED <<unit_vars, safety_vars, catalog_vars, classifier_vars, executor_vars>>

\* ExecutionEngine(db).execute_plan(dry_run=...)
ExecutePlan ==
  /\ \E dry_run \in BOOLEAN :
       LET approved == get_approved_actions(files, classifications, user_decisions)
           eng0     == NewEngine(fs, action_log)
       IN  IF approved = <<>>
           THEN /\ summary' = Summary(eng0, None)
                /\ plan' = [called |-> TRUE, dry_run |-> dry_run, rows |-> approved]
                /\ UNCHANGED <<action_log, fs, batch_count>>
           ELSE /\ batch_count < MaxExecutions
                /\ plan' = [called |-> TRUE, dry_run |-> dry_run, rows |-> approved]
                /\ \E faults \in Faults(approved, dry_run) :
                     LET batch_id == generate_batch_id(batch_count + 1)
                         eng      == execute_rows(eng0, approved, batch_id,
                                                  dry_run, faults.log_fails,
                                                  faults.corrupt, 1)
                     IN  /\ fs' = eng.fs
                         /\ action_log' = eng.log
                         /\ summary' = Summary(eng, batch_id)
                         /\ batch_count' = batch_count + 1
  /\ UNCHANGED <<unit_vars, safety_vars, catalog_vars, classifier_vars,
                 review_vars, undo_summary>>

NextExecute ==
  \/ SaveUserDecision
  \/ SaveBatchDecisions
  \/ ExecutePlan

SpecExecute == InitExecute /\ [][NextExecute]_vars

(***************************************************************************)
(* Execution and undo of the plans of reviewed catalogs                    *)
(***************************************************************************)
\* The catalogs reviewed file by file, as rows of FileUniverse: a file of a
\* protected owner with another file, and two files of the same name in
\* different folders
PlanCatalogs == {<<3, 6>>, <<6, 16>>}

\* The catalogs reviewed with Approve All: three files of the same name in
\* different folders
BulkCatalogs == {<<6, 16, 17>>}

\* The buttons pressed in the reviews
ReviewChoices ==
  { <<"APPROVE", None>>, <<"REJECT", None>>, <<"PROTECT", "KEEP">>,
    <<"CHANGE", "MOVE_DATA">>, <<"CHANGE", "ARCHIVE">> }

\* Decisions saved through Database.save_user_decision for a file that has
\* no classification
DirectDecisions == {<<"APPROVE", None>>}

\* The decision tables a review can leave: per file no decision, one of the
\* buttons of its tab or, without a classification, a direct decision
ReviewedDecisions(fls, cls) ==
  UNION { { [id \in decided |-> [decision |-> f[id][1], new_action |-> f[id][2]]] :
              f \in { g \in [decided -> ReviewChoices] :
                        \A id \in decided :
                           g[id] \in (IF id \in DOMAIN cls
                                      THEN FileButtons(cls[id].action)
                                      ELSE DirectDecisions) } } :
          decided \in SUBSET (1..Len(fls)) }

\* The Catalog after scan, a classify run that called every file
\* DELETE_JUNK at confidence 1.0 and stored all rows or all but one, and a
\* review, file by file or with Approve All on the DELETE_JUNK tab
CatalogReviewed ==
  /\ files \in {[i \in 1..Len(ks) |-> FileUniverse[ks[i]]] :
                  ks \in PlanCatalogs \cup BulkCatalogs}
  /\ \E store_fails \in StoreFailures(get_unclassified_batch(files, <<>>, Len(files)), 0) :
       classifications =
         LET ids  == get_unclassified_batch(files, <<>>, Len(files))
             text == [ json_ok |-> TRUE,
                       items   |-> AnswerItems(files, ids,
                                     [k \in 1..Len(ids) |-> DeleteJunkCertain], 1) ]
             st0  == [cls |-> <<>>, classified |-> 0, overridden |-> 0, errors |-> 0]
         IN  apply_safety_and_store(files, ids, parse_response(text, Len(ids)),
                                    st0, 1, store_fails).cls
  /\ user_decisions \in
       IF \E ks \in BulkCatalogs : Len(ks) = Len(files)
       THEN {save_batch_decisions(<<>>,
               get_files_by_action(classifications, "DELETE_JUNK"), "APPROVE")}
       ELSE ReviewedDecisions(files, classifications)

InitPlan ==
  /\ SafetyIdle
  /\ CatalogReviewed
  /\ ClassifierIdle
  /\ NothingExecuted
  /\ UnitsIdle

\* The batch ids handed out so far
BatchIds == {generate_batch_id(n) : n \in 1..batch_count}

\* UndoManager(db).undo_batch(batch_id, dry_run=...)
UndoBatch ==
  /\ \E batch_id \in BatchIds : \E dry_run \in BOOLEAN :
     \E faults \in UndoFaults(get_batch_actions(action_log, batch_id), dry_run) :
       LET u == undo_batch(fs, action_log, batch_id, dry_run, faults)
       IN  /\ fs' = u.fs
           /\ action_log' = u.log
           /\ undo_summary' = [ batch_id |-> batch_id, dry_run |-> dry_run,
                                order |-> u.order, outcomes |-> u.outcomes,
                                undone |-> u.undone, skipped |-> u.skipped,
                                failed |-> u.failed ]
  /\ UNCHANGED <<unit_vars, safety_vars, catalog_vars, classifier_vars,
                 review_vars, batch_count, summary, plan>>

NextPlan ==
  \/ ExecutePlan
  \/ UndoBatch

SpecPlan == InitPlan /\ [][NextPlan]_vars

(***************************************************************************)
(* Execution and undo on a disk that has changed since the scan            *)
(***************************************************************************)
\* The catalogs: an application directory and a file
DiskCatalogs == {<<14, 6>>}

\* The buttons pressed in these reviews: the stored action approved, or any
\* other action chosen
DiskChoices(action) ==
  {b \in FileButtons(action) : b[1] \in {"APPROVE", "CHANGE"}}

\* What the disk can hold for the scanned rows when the plan runs: every
\* row is still there, as the directory or the file it was, or has been
\* removed; and an earlier copy of a directory may sit under the apps
\* root, or an earlier archive of it in the archive folder of the month
DiskStates(fls) ==
  LET scanned == [p \in {fls[i].path : i \in 1..Len(fls)} |->
                    IF p \in DirectoryPaths THEN Tree(p) ELSE p]
      kept    == {[p \in present |-> scanned[p]] :
                    present \in SUBSET DOMAIN scanned}
      month   == JoinParts(D_DRIVE_STRUCTURE.archive, <<ArchiveMonth>>)
  IN  kept \cup
      {(JoinParts(APPS_ROOT, <<PathName(d)>>) :> Tree(d)) @@ scanned :
         d \in DOMAIN scanned \cap DirectoryPaths} \cup
      {zip_write(scanned, d, JoinParts(month, <<PathStem(d) \o ".zip">>)) :
         d \in DOMAIN scanned \cap DirectoryPaths}

\* The Catalog after scan, classify_batch_direct over all rows with a
\* response calling every one DELETE_JUNK at confidence 1.0, and a review
CatalogOnDisk ==
  /\ files \in {[i \in 1..Len(ks) |-> FileUniverse[ks[i]]] : ks \in DiskCatalogs}
  /\ classifications =
       LET ids  == [k \in 1..Len(files) |-> k]
           text == [ json_ok |-> TRUE,
                     items   |-> AnswerItems(files, ids,
                                   [k \in 1..Len(ids) |-> DeleteJunkCertain], 1) ]
           st0  == [cls |-> <<>>, classified |-> 0, overridden |-> 0, errors |-> 0]
       IN  apply_safety_and_store(files, ids, parse_response(text, Len(ids)),
                                  st0, 1, {}).cls
  /\ user_decisions \in
       UNION { { [id \in decided |-> [decision |-> f[id][1], new_action |-> f[id][2]]] :
                   f \in { g \in [decided -> UNION {DiskChoices(a) : a \in VALID_ACTIONS}] :
                             \A id \in decided :
                                g[id] \in DiskChoices(classifications[id].action) } } :
               decided \in SUBSET (1..Len(files)) }

InitDisk ==
  /\ SafetyIdle
  /\ CatalogOnDisk
  /\ ClassifierIdle
  /\ action_log = <<>>
  /\ fs \in DiskStates(files)
  /\ batch_count = 0
  /\ summary = NoSummary
  /\ plan = NoPlan
  /\ undo_summary = NoUndo
  /\ UnitsIdle

SpecDisk == InitDisk /\ [][NextPlan]_vars

(***************************************************************************)
(* Properties of SafetyEngine.check (checked under SpecSafety)             *)
(***************************************************************************)
UniverseFiles == {FileUniverse[i] : i \in 1..Len(FileUniverse)}

DeleteActions == {"DELETE_JUNK", "DELETE_UNUSED"}

\* The path with every / written as \
RECURSIVE BackslashForm(_, _)
BackslashForm(s, i) ==
  IF i > Len(s) THEN ""
  ELSE (IF CharAt(s, i) = "/" THEN "\\" ELSE CharAt(s, i)) \o BackslashForm(s, i + 1)

\* path is root itself or lies below it, letter case ignored
AtOrBelow(path, root) ==
  LET p == Lower(BackslashForm(path, 1))
      r == Lower(root)
  IN  \/ p = r
      \/ Len(p) > Len(r) /\ SubSeq(p, 1, Len(r) + 1) = r \o "\\"

\* The files of FileUniverse under a protected root or owned by a protected
\* principal
ProtectedFiles ==
  {f \in UniverseFiles :
     \/ \E i \in 1..Len(PROTECTED_PATHS) : AtOrBelow(f.path, PROTECTED_PATHS[i])
     \/ \E i \in 1..Len(PROTECTED_OWNERS) : Lower(f.owner) = Lower(PROTECTED_OWNERS[i])}

\* The files of FileUniverse whose extension (the extension column, or the
\* suffix of the path when the column is empty), lowercased, is a guardian
\* extension
GuardianFiles ==
  {f \in UniverseFiles :
     Lower(IF Truthy(f.extension) THEN f.extension ELSE PathSuffix(f.path))
        \in GUARDIAN_EXTENSIONS}

\* The files of FileUniverse whose lowercased leaf name contains a sensitive
\* substring
SensitiveFiles ==
  {f \in UniverseFiles :
     \E i \in 1..Len(SENSITIVE_FILE_PATTERNS) :
        Contains(Lower(SENSITIVE_FILE_PATTERNS[i]), Lower(f.name))}

\* C1: for a file at or below a protected root, or owned (letter case
\* ignored) by a protected principal, check returns final_action KEEP with
\* overridden and is_protected set, for every proposed action and confidence.
C1_ProtectedAlwaysKept ==
  (check_pc = "ret" /\ check_in.file \in ProtectedFiles)
     => /\ check_out.final_action = "KEEP"
        /\ check_out.overridden
        /\ check_out.is_protected

C1_Witness ==
  /\ check_pc = "ret"
  /\ check_in.file.owner = "nt authority\\system"
  /\ check_in.file \in ProtectedFiles
  /\ check_in.ai_action = "DELETE_JUNK"
  /\ check_in.ai_confidence = 100000
  /\ check_out.final_action = "KEEP"
  /\ check_out.is_protected

\* C3: for a file with a guardian extension, a proposed DELETE_JUNK or
\* DELETE_UNUSED comes back as KEEP at every confidence.
C3_GuardianNeverDeleted ==
  (check_pc = "ret" /\ check_in.file \in GuardianFiles
                    /\ check_in.ai_action \in DeleteActions)
     => check_out.final_action = "KEEP"

C3_Witness ==
  /\ check_pc = "ret"
  /\ check_in.file \in GuardianFiles \ ProtectedFiles
  /\ check_in.file.extension = ".MP3"
  /\ check_in.ai_action = "DELETE_UNUSED"
  /\ check_in.ai_confidence = 100000
  /\ check_out.final_action = "KEEP"
  /\ check_out.is_guardian_protected

\* C4: for a file that is neither protected nor guardian nor sensitive, a
\* proposed DELETE_JUNK or DELETE_UNUSED is forced to KEEP with overridden
\* and needs_review exactly when the confidence is below 0.85; at 0.85 and
\* above the action is returned unchanged and overridden is false.
C4_DeleteConfidenceGate ==
  (check_pc = "ret"
     /\ check_in.file \notin (ProtectedFiles \cup GuardianFiles \cup SensitiveFiles)
     /\ check_in.ai_action \in DeleteActions)
     => IF check_in.ai_confidence < 85000
        THEN /\ check_out.final_action = "KEEP"
             /\ check_out.overridden
             /\ check_out.needs_review
        ELSE /\ check_out.final_action = check_in.ai_action
             /\ ~check_out.overridden

C4_Witness ==
  /\ check_pc = "ret"
  /\ check_in.file \notin (ProtectedFiles \cup GuardianFiles \cup SensitiveFiles)
  /\ check_in.ai_action = "DELETE_JUNK"
  /\ check_in.ai_confidence = 85000
  /\ check_out.final_action = "DELETE_JUNK"
  /\ ~check_out.overridden

\* C5: for a file that Layer 1 does not short-circuit and whose lowercased
\* leaf name contains a sensitive substring, the verdict has is_sensitive
\* for every proposed action, and a proposed DELETE_* ends as KEEP with
\* overridden and needs_review at every confidence.
C5_SensitiveFlaggedAndKept ==
  (check_pc = "ret" /\ check_in.file \in SensitiveFiles \ ProtectedFiles)
     => /\ check_out.is_sensitive
        /\ check_in.ai_action \in DeleteActions
             => /\ check_out.final_action = "KEEP"
                /\ check_out.overridden
                /\ check_out.needs_review

C5_Witness ==
  /\ check_pc = "ret"
  /\ check_in.file \in SensitiveFiles \ (ProtectedFiles \cup GuardianFiles)
  /\ check_in.file.name = "My_Key.bin"
  /\ check_in.ai_action = "DELETE_JUNK"
  /\ check_in.ai_confidence = 100000
  /\ check_out.is_sensitive
  /\ check_out.final_action = "KEEP"
  /\ check_out.override_reason = "Sensitive file - cannot be deleted"

(***************************************************************************)
(* Properties of the classify command (checked under SpecClassify)         *)
(***************************************************************************)
\* C6: every stored classification row carries the Safety Engine's final
\* action: no row has a DELETE_* action for a file that is protected, has a
\* guardian extension or a sensitive leaf name, or whose stored confidence
\* is below 0.85; a row with overridden = 1 has the action every override
\* of the Safety Engine mandates, KEEP; and every stored action is one of
\* the six valid actions.
C6_StoredRowsAreSafetyVerdicts ==
  \A id \in DOMAIN classifications :
     LET f   == files[id]
         row == classifications[id]
     IN  /\ row.file_id = id
         /\ row.action \in VALID_ACTIONS
         /\ (f \in ProtectedFiles \cup GuardianFiles \cup SensitiveFiles
               \/ row.confidence < 85000)
              => row.action \notin DeleteActions
         /\ row.overridden = 1 => row.action = "KEEP"
         /\ (row.action \in DeleteActions) => row.overridden = 0

\* C6 witness: the model said DELETE_JUNK at confidence 1.0 about a document
\* outside every protected root, and the stored row is the override to KEEP
C6_Witness ==
  \E id \in DOMAIN classifications :
     /\ files[id] \in GuardianFiles \ (ProtectedFiles \cup SensitiveFiles)
     /\ classifications[id].action = "KEEP"
     /\ classifications[id].confidence = 100000
     /\ classifications[id].overridden = 1
     /\ classifications[id].reason = "r"

\* C7: classify_all leaves its loop only when three consecutive batches
\* have added no classification row or when no unclassified non-directory
\* file remains.
C7_StopsOnlyWhenDoneOrThreeFailures ==
  cls_pc \in {"returned", "raised"}
    => \/ consecutive_failures >= 3
       \/ \A i \in 1..Len(files) :
             files[i].is_dir = 1 \/ i \in DOMAIN classifications

\* C8: a batch during which the LLM is unreachable counts each of its files
\* as an error and writes no row; a run in which the LLM is unreachable on
\* every call, over N >= 1 unclassified files with batch size >= N, returns
\* after exactly three batches with classified = 0 and errors = 3 * N and
\* leaves the classifications table as it found it.
C8_UnreachableCountsEveryFile ==
  /\ last_batch.event = "unreachable"
       => /\ classifications = last_batch.rows_before
          /\ classified = last_batch.classified_before
          /\ errors = last_batch.errors_before + Len(last_batch.ids)
  /\ ( /\ cls_pc = "returned"
       /\ run_start.always_unreachable
       /\ run_start.unclassified >= 1
       /\ batch_size >= run_start.unclassified )
       => /\ batches = 3
          /\ classified = 0
          /\ errors = 3 * run_start.unclassified
          /\ classifications = run_start.rows

\* C8 witness: a run over two unclassified files in batches of two, the LLM
\* unreachable on every call, has returned with six errors
C8_Witness ==
  /\ cls_pc = "returned"
  /\ run_start.always_unreachable
  /\ run_start.unclassified = 2
  /\ batch_size = 2
  /\ batches = 3
  /\ errors = 6
  /\ classified = 0

\* C9: after a batch whose generate call met a transport failure (endpoint
\* unreachable, HTTP non-2xx status, read timeout) classify_all has not
\* raised: the batch's files are counted as errors, no row is written and
\* the consecutive-failure counter has gone up by one.
C9_TransportFailuresRecovered ==
  last_batch.event \in {"unreachable", "http_status", "read_timeout"}
    => /\ cls_pc # "raised"
       /\ classifications = last_batch.rows_before
       /\ errors = last_batch.errors_before + Len(last_batch.ids)
       /\ consecutive_failures = last_batch.failures_before + 1

\* C10: after a batch whose generate call returned, every file of the batch
\* whose INSERT the Catalog accepted has exactly one classification row and
\* no other row was added; a file whose exact path is in no object of the
\* response (malformed responses included) is stored as KEEP with confidence
\* 0.0 and reason "No AI classification returned"; the errors counter has
\* gone up by one per such file (and by one per rejected INSERT).
C10_ReconciliationStoresEveryFile ==
  last_batch.event = "ok"
    => LET ids == {last_batch.ids[k] : k \in 1..Len(last_batch.ids)}
       IN  /\ DOMAIN classifications =
                 DOMAIN last_batch.rows_before \cup (ids \ last_batch.store_failed)
           /\ \A id \in DOMAIN last_batch.rows_before :
                 classifications[id] = last_batch.rows_before[id]
           /\ \A id \in (ids \cap last_batch.unanswered) \ last_batch.store_failed :
                 /\ classifications[id].file_id = id
                 /\ classifications[id].action = "KEEP"
                 /\ classifications[id].confidence = 0
                 /\ classifications[id].reason = "No AI classification returned"
           /\ \A id \in (ids \ last_batch.unanswered) \ last_batch.store_failed :
                 classifications[id].reason = "r"
           /\ errors = last_batch.errors_before
                         + Cardinality(last_batch.unanswered)
                         + Cardinality(last_batch.store_failed)
           /\ classified = last_batch.classified_before
                         + Cardinality(ids \ last_batch.store_failed)

\* C10 witness: a batch of two files, every INSERT accepted, in which the
\* response answered one file under its exact path and not the other
C10_Witness ==
  /\ last_batch.event = "ok"
  /\ Len(last_batch.ids) = 2
  /\ last_batch.store_failed = {}
  /\ Cardinality(last_batch.unanswered) = 1
  /\ \E id \in last_batch.unanswered :
        /\ id \in DOMAIN classifications
        /\ classifications[id].reason = "No AI classification returned"
        /\ classifications[id].confidence = 0
  /\ errors = last_batch.errors_before + 1

C2_ProtectedNeverMutated ==
  \A id \in 1..Len(files) :
     (files[id] \in ProtectedFiles /\ files[id].is_dir = 0)
       => /\ files[id].path \in DOMAIN fs
          /\ fs[files[id].path] = files[id].path
          /\ \A k \in 1..Len(action_log) : action_log[k].file_id # id

(***************************************************************************)
(* Properties of _parse_response (checked under SpecParse)                 *)
(***************************************************************************)
\* The results the parser makes of the objects of an array
ResultsOf(items) == [i \in 1..Len(items) |-> ParseItem(items[i])]

\* C11: for a response text made of a valid JSON array of classification
\* objects wrapped in prose and code fences, whatever characters the prose
\* holds, _parse_response returns one result per object of that array, in
\* the array's order.
C11_WrappedArrayIsReturned ==
  parse_pc = "ret" => parse_out = ResultsOf(parse_in.items)

(***************************************************************************)
(* Properties of OllamaClient (checked under SpecClient)                   *)
(***************************************************************************)
\* C13: the client is only ever configured with a loopback endpoint
\* (127.0.0.1:11434 or localhost:11434), and no generate or list-models
\* request is sent to any other host.
C13_OnlyLoopbackIsContacted ==
  /\ ollama_host # None => IsLoopbackUrl(ollama_host)
  /\ \A r \in requests : IsLoopbackUrl(r.url)

(***************************************************************************)
(* Properties of _build_batch_prompt (checked under SpecPrompt)            *)
(***************************************************************************)
\* The six columns of every file of a batch, in order
MetadataOf(rows) == [k \in 1..Len(rows) |-> PromptColumns(rows[k])]

\* C14: the prompt of a batch is a function of the path, name, extension,
\* size, modified and accessed columns of its files only: two runs whose
\* batches agree on these six columns build the same prompt, whatever the
\* other columns and the contents on disk are, and no prompt holds the
\* content of a file.
C14_PromptIsMetadataOnly ==
  prompt_pc = "ret" =>
    /\ MetadataOf(prompt_in[1]) = MetadataOf(prompt_in[2])
          => prompt_out[1] = prompt_out[2]
    /\ \A r \in 1..2 : \A k \in 1..Len(prompt_in[r]) :
          ~Contains(prompt_in[r][k].content, prompt_out[r])

\* C14 witness: two runs over the same file with different content, owner,
\* creation time and read-only flag built one and the same prompt, which
\* names the file
C14_Witness ==
  /\ prompt_pc = "ret"
  /\ Len(prompt_in[1]) >= 1
  /\ MetadataOf(prompt_in[1]) = MetadataOf(prompt_in[2])
  /\ prompt_in[1][1].content # prompt_in[2][1].content
  /\ prompt_in[1][1].owner # prompt_in[2][1].owner
  /\ prompt_out[1] = prompt_out[2]
  /\ Contains(prompt_in[1][1].path, prompt_out[1])

(***************************************************************************)
(* Properties of the plan and of undo (checked under SpecPlan, where the   *)
(* decisions are those of the finished review)                             *)
(***************************************************************************)
\* The files with a classification and a decision APPROVE or CHANGE
ApprovedIds ==
  {id \in 1..Len(files) :
     /\ id \in DOMAIN classifications
     /\ id \in DOMAIN user_decisions
     /\ user_decisions[id].decision \in {"APPROVE", "CHANGE"}}

\* The number of rows execute_plan counted, whatever their outcome
Dispatched(sm) ==
  sm.moved + sm.deleted + sm.archived + sm.symlinked + sm.skipped + sm.errors

FinalAction(id) ==
  IF user_decisions[id].decision = "CHANGE"
  THEN user_decisions[id].new_action
  ELSE classifications[id].action

\* What execute_plan logs for a final action; None for KEEP
LoggedAs(action) ==
  IF action \in {"MOVE_DATA", "MOVE_APP"} THEN "MOVED"
  ELSE IF action \in {"DELETE_JUNK", "DELETE_UNUSED"} THEN "DELETED"
  ELSE IF action = "ARCHIVE" THEN "ARCHIVED"
  ELSE None

\* The rows of the last plan whose final action is logged as kind
RowsLoggedAs(kind) ==
  Cardinality({k \in 1..Len(plan.rows) :
                 LoggedAs(FinalAction(plan.rows[k].id)) = kind})

C17_UndoRestoresEverySource ==
  [][(UndoBatch /\ ~undo_summary'.dry_run /\ undo_summary'.failed = 0) =>
       \A i \in 1..Len(action_log) :
          (/\ action_log[i].batch_id = undo_summary'.batch_id
           /\ action_log[i].undone = 0
           /\ action_log[i].action \in {"MOVED", "DELETED"})
          => /\ exists(fs', action_log[i].source_path)
             /\ file_checksum(fs', action_log[i].source_path)
                  = action_log[i].checksum_before]_vars

\* A step is a live execute_plan run over a plan that is not empty
LiveRun == batch_count' = batch_count + 1 /\ ~plan'.dry_run

\* The log entries a step appended for the file file_id
Appended(file_id) ==
  {i \in (Len(action_log) + 1)..Len(action_log') :
     action_log'[i].file_id = file_id}

\* The log entries of kind action a step appended
AppendedAs(action) ==
  {i \in (Len(action_log) + 1)..Len(action_log') :
     action_log'[i].action = action}

\* <trash_root>\<batch_id>\<leaf>, and the same with a counter appended to
\* the stem
TrashPaths(path, batch_id) ==
  LET base == JoinParts(DEFAULT_TRASH_DIR, <<batch_id>>)
  IN  {JoinParts(base, <<PathName(path)>>)} \cup
      {JoinParts(base, <<PathStem(path) \o "_" \o ToString(n) \o PathSuffix(path)>>) :
         n \in 1..Len(files)}

\* The rows of the plan just read whose final action is among actions and
\* whose source existed when the run began
RowsToRun(actions) ==
  {k \in 1..Len(plan'.rows) :
     /\ plan'.rows[k].final_action \in actions
     /\ exists(fs, plan'.rows[k].path)}

\* C18: a live execute_plan destroys no content of a file whose final
\* action is DELETE_JUNK or DELETE_UNUSED: afterwards the source path is
\* gone and the file's bytes are at <trash_root>\<batch_id>\<leaf>, or at
\* the leaf with a counter, under the checksum taken before; the run
\* appends at most one entry for the file, a DELETED entry with that source,
\* that trash path and that checksum, and exactly one unless it counted an
\* error; and it counts as deleted exactly the DELETED entries it appended.
C18_SoftDeleteKeepsContent ==
  [][LiveRun =>
       /\ \A k \in RowsToRun(DeleteActions) :
             LET row == plan'.rows[k]
                 kept == {p \in TrashPaths(row.path, summary'.batch_id) :
                            exists(fs', p) /\ fs'[p] = fs[row.path]}
             IN  /\ ~exists(fs', row.path)
                 /\ kept # {}
                 /\ Cardinality(Appended(row.id)) <= 1
                 /\ summary'.errors = 0 => Cardinality(Appended(row.id)) = 1
                 /\ \A i \in Appended(row.id) :
                       /\ action_log'[i].action = "DELETED"
                       /\ action_log'[i].source_path = row.path
                       /\ action_log'[i].dest_path \in kept
                       /\ action_log'[i].batch_id = summary'.batch_id
                       /\ action_log'[i].checksum_before
                            = file_checksum(fs, row.path)
                       /\ file_checksum(fs', action_log'[i].dest_path)
                            = action_log'[i].checksum_before
       /\ summary'.deleted = Cardinality(AppendedAs("DELETED"))]_vars

\* C18 witness: a DELETED entry whose source is gone and whose trash path,
\* the plain leaf in the batch's folder, holds the bytes of the recorded
\* checksum
C18_Witness ==
  \E i \in 1..Len(action_log) :
     /\ action_log[i].action = "DELETED"
     /\ ~exists(fs, action_log[i].source_path)
     /\ action_log[i].dest_path =
          JoinParts(DEFAULT_TRASH_DIR,
                    <<action_log[i].batch_id, PathName(action_log[i].source_path)>>)
     /\ file_checksum(fs, action_log[i].dest_path) = action_log[i].checksum_before
     /\ summary.deleted = 1

\* The rows to soft-delete of the plan just read that precede row k and
\* share its leaf name
EarlierSameLeaf(k) ==
  {j \in RowsToRun(DeleteActions) :
     j < k /\ PathName(plan'.rows[j].path) = PathName(plan'.rows[k].path)}

\* <trash_root>\<batch_id>\<leaf> for n = 0, else with _n after the stem
CounteredTrashPath(path, batch_id, n) ==
  JoinParts(JoinParts(DEFAULT_TRASH_DIR, <<batch_id>>),
            <<IF n = 0 THEN PathName(path)
              ELSE PathStem(path) \o "_" \o ToString(n) \o PathSuffix(path)>>)

\* C19: soft-deleted files of one batch that share a leaf name get distinct
\* trash paths, the plain leaf for the first and <stem>_1<suffix>,
\* <stem>_2<suffix>, ... for the following ones; after the run every one of
\* these trash paths holds the bytes of its own file; and a live undo of the
\* batch in which no reversal raises brings every one of the files that is
\* in the trash back to its source with its content.
C19_SameLeafDeletesKeptApart ==
  [][/\ LiveRun =>
          \A k \in RowsToRun(DeleteActions) :
             LET row  == plan'.rows[k]
                 dest == CounteredTrashPath(row.path, summary'.batch_id,
                                            Cardinality(EarlierSameLeaf(k)))
             IN  /\ exists(fs', dest)
                 /\ fs'[dest] = fs[row.path]
                 /\ \A j \in EarlierSameLeaf(k) :
                       fs'[dest] # fs[plan'.rows[j].path]
                 /\ \A i \in Appended(row.id) :
                       action_log'[i].dest_path = dest
     /\ (UndoBatch /\ ~undo_summary'.dry_run /\ undo_summary'.failed = 0) =>
          \A i \in 1..Len(action_log) :
             (/\ action_log[i].action = "DELETED"
              /\ action_log[i].batch_id = undo_summary'.batch_id
              /\ action_log[i].undone = 0
              /\ exists(fs, action_log[i].dest_path))
             => /\ file_checksum(fs', action_log[i].source_path)
                     = action_log[i].checksum_before
                /\ action_log'[i].undone = 1]_vars

\* C19 witness: two files named junk.tmp went to the trash of one batch as
\* junk.tmp and junk_1.tmp, and the undo of the batch put both back
C19_Witness ==
  \E i, j \in 1..Len(action_log) :
     /\ i < j
     /\ action_log[i].action = "DELETED" /\ action_log[j].action = "DELETED"
     /\ action_log[i].batch_id = action_log[j].batch_id
     /\ PathName(action_log[i].dest_path) = "junk.tmp"
     /\ PathName(action_log[j].dest_path) = "junk_1.tmp"
     /\ action_log[i].undone = 1 /\ action_log[j].undone = 1
     /\ file_checksum(fs, action_log[i].source_path) = action_log[i].checksum_before
     /\ file_checksum(fs, action_log[j].source_path) = action_log[j].checksum_before
     /\ action_log[i].checksum_before # action_log[j].checksum_before

\* C20: in a live execute_plan, a regular file to move whose bytes arrive
\* changed is moved back to its source path, counted as an error and gets
\* no log entry; any other file to move gets at most one entry, a MOVED
\* entry with the checksum before and an equal checksum after, and exactly
\* one unless the run counted an error; the files to move that got no entry
\* are at most as many as the errors counted; and the run counts as moved
\* exactly the MOVED entries it appended.
C20_MoveVerifiedOrRolledBack ==
  [][LiveRun =>
       /\ \A k \in RowsToRun({"MOVE_DATA", "MOVE_APP"}) :
             LET row == plan'.rows[k]
                 damaged == {p \in DOMAIN fs' : fs'[p] = Damaged(fs[row.path])}
             IN  /\ damaged # {} =>
                       /\ damaged = {row.path}
                       /\ Appended(row.id) = {}
                       /\ summary'.errors >= 1
                 /\ Cardinality(Appended(row.id)) <= 1
                 /\ summary'.errors = 0 => Cardinality(Appended(row.id)) = 1
                 /\ \A i \in Appended(row.id) :
                       /\ action_log'[i].action = "MOVED"
                       /\ action_log'[i].source_path = row.path
                       /\ action_log'[i].checksum_before
                            = file_checksum(fs, row.path)
                       /\ action_log'[i].checksum_after
                            = action_log'[i].checksum_before
                       /\ ~exists(fs', row.path)
       /\ Cardinality({k \in RowsToRun({"MOVE_DATA", "MOVE_APP"}) :
                          Appended(plan'.rows[k].id) = {}}) <= summary'.errors
       /\ summary'.moved = Cardinality(AppendedAs("MOVED"))]_vars

\* C20 witness: of two files to move, one arrived changed and is back at
\* its source, an error was counted, and the only entry of the log is the
\* MOVED entry of the other file with two equal checksums
C20_Witness ==
  /\ plan.called /\ ~plan.dry_run
  /\ Len(plan.rows) = 2
  /\ summary.errors = 1 /\ summary.moved = 1
  /\ Len(action_log) = 1
  /\ action_log[1].action = "MOVED"
  /\ action_log[1].checksum_after = action_log[1].checksum_before
  /\ action_log[1].checksum_before # None
  /\ \E k \in 1..2 :
        /\ plan.rows[k].id # action_log[1].file_id
        /\ exists(fs, plan.rows[k].path)
        /\ fs[plan.rows[k].path] = Damaged(plan.rows[k].path)

(***************************************************************************)
(* Properties of execute_plan and undo_batch on a changed disk (checked    *)
(* under SpecDisk)                                                         *)
(***************************************************************************)
\* A step is a dry run of execute_plan over a plan that is not empty
DryRun == batch_count' = batch_count + 1 /\ plan'.dry_run

\* C21: execute_plan(dry_run = True) changes nothing on disk and appends
\* nothing to the action log, whatever the plan holds: moves, app
\* migrations, deletes, archives and kept entries, for files, for
\* directories and for sources that are gone.
C21_DryRunChangesNothing ==
  [][DryRun => fs' = fs /\ action_log' = action_log]_vars

\* C21 witness: after a dry run over an application directory to migrate
\* and a file to delete, both counted, the directory and the file are where
\* they were and the log is empty
C21_Witness ==
  /\ plan.called /\ plan.dry_run
  /\ Len(plan.rows) = 2
  /\ plan.rows[1].final_action = "MOVE_APP"
  /\ plan.rows[2].final_action = "DELETE_JUNK"
  /\ summary.symlinked = 1 /\ summary.deleted = 1
  /\ is_dir(fs, plan.rows[1].path) /\ ~is_junction(fs, plan.rows[1].path)
  /\ is_file(fs, plan.rows[2].path)
  /\ action_log = <<>>

(***************************************************************************)
(* Properties of repeated runs (checked under SpecPlan)                    *)
(***************************************************************************)
\* What execute_plan would return if it were called again right after a
\* step, with no decision saved in between and nothing going wrong
SecondRun(dry_run) ==
  execute_plan(fs', action_log',
               get_approved_actions(files', classifications', user_decisions'),
               batch_count' + 1, dry_run, NoFaults).summary

\* C22: after a live execute_plan over an approved plan, a second
\* execute_plan with no new decision returns no batch id and all counters
\* zero.
C22_SecondRunIsEmpty ==
  [][LiveRun => SecondRun(FALSE) = NoSummary]_vars

\* The entries the step appended to the action log that record row as
\* archived
ArchivedEntries(row) ==
  {i \in (Len(action_log) + 1)..Len(action_log') :
     /\ action_log'[i].file_id = row.id
     /\ action_log'[i].action = "ARCHIVED"}

\* C23: after a live run every ARCHIVE row whose source was on disk still
\* has its source, file or directory, at its path with the content it had,
\* and, unless the run counted an error, exactly one new ARCHIVED entry
\* whose destination is a zip that was not on disk before the run
C23_ArchiveKeepsSource ==
  [][LiveRun =>
       \A k \in 1..Len(plan'.rows) :
          LET row == plan'.rows[k]
          IN  (row.final_action = "ARCHIVE" /\ exists(fs, row.path)) =>
                /\ exists(fs', row.path)
                /\ fs'[row.path] = fs[row.path]
                /\ Cardinality(ArchivedEntries(row)) <= 1
                /\ \A i \in ArchivedEntries(row) :
                      /\ action_log'[i].source_path = row.path
                      /\ action_log'[i].dest_path \notin DOMAIN fs
                      /\ is_file(fs', action_log'[i].dest_path)
                /\ summary'.errors = 0 => Cardinality(ArchivedEntries(row)) = 1]_vars

\* A directory archived next to an earlier archive of the same name: it is
\* still on disk, and so is the earlier archive, beside the new zip
C23_Witness ==
  /\ plan.called /\ ~plan.dry_run
  /\ summary.archived = 1
  /\ \E i \in 1..Len(action_log) :
        /\ action_log[i].action = "ARCHIVED"
        /\ is_dir(fs, action_log[i].source_path)
        /\ fs[action_log[i].source_path] = Tree(action_log[i].source_path)
        /\ action_log[i].dest_path = "D:\\Archive\\2024-06\\AppDir_1.zip"
        /\ is_file(fs, action_log[i].dest_path)
        /\ is_file(fs, "D:\\Archive\\2024-06\\AppDir.zip")

\* The actions execute_plan dispatches to a handler
DispatchedActions ==
  {"MOVE_DATA", "MOVE_APP", "DELETE_JUNK", "DELETE_UNUSED", "ARCHIVE"}

\* The positions of the plan whose source is not on disk
MissingSources(approved, fsys) ==
  {k \in 1..Len(approved) :
     /\ approved[k].final_action \in DispatchedActions
     /\ ~exists(fsys, approved[k].path)}

\* The plan without the positions in skip, in the same order
RECURSIVE WithoutRows(_, _, _)
WithoutRows(approved, skip, k) ==
  IF k > Len(approved) THEN <<>>
  ELSE (IF k \in skip THEN <<>> ELSE <<approved[k]>>)
       \o WithoutRows(approved, skip, k + 1)

\* C24: a live run does to the disk and to the action log exactly what it
\* would do for the plan without the entries whose source is missing, and
\* returns the same counts with skipped raised by one per missing source:
\* such an entry is no error, changes nothing and stops nothing
C24_MissingSourceIsSkipped ==
  [][LiveRun =>
       LET missing == MissingSources(plan'.rows, fs)
           others  == WithoutRows(plan'.rows, missing, 1)
       IN  /\ \A k \in missing :
                 /\ ~exists(fs', plan'.rows[k].path)
                 /\ \A i \in (Len(action_log) + 1)..Len(action_log') :
                       action_log'[i].file_id # plan'.rows[k].id
           /\ \E faults \in Faults(others, FALSE) :
                 LET run == execute_plan(fs, action_log, others, batch_count',
                                         FALSE, faults)
                 IN  /\ fs' = run.eng.fs
                     /\ action_log' = run.eng.log
                     /\ summary' =
                          [run.summary EXCEPT
                             !.batch_id = generate_batch_id(batch_count'),
                             !.skipped  = @ + Cardinality(missing)]]_vars

\* A live run over an application directory removed since the scan and a
\* file: the directory is skipped and the file after it is deleted
C24_Witness ==
  /\ plan.called /\ ~plan.dry_run
  /\ Len(plan.rows) = 2
  /\ plan.rows[1].final_action = "MOVE_APP"
  /\ plan.rows[2].final_action = "DELETE_JUNK"
  /\ plan.rows[1].path \notin DOMAIN fs
  /\ summary.skipped = 1 /\ summary.deleted = 1 /\ summary.errors = 0
  /\ Len(action_log) = 1
  /\ action_log[1].file_id = plan.rows[2].id

(***************************************************************************)
(* _compute_dest_path on its own                                           *)
(***************************************************************************)
\* Source paths as the scanner stores them: drive-absolute, of two to six
\* components, with either separator
DestSources ==
  { "C:\\file.txt",
    "C:\\Users\\file.txt",
    "C:\\Users\\Alice\\notes.txt",
    "C:\\Users\\Alice\\Documents\\r.pdf",
    "C:\\Users\\Alice\\Documents\\Work\\r.pdf",
    "C:\\Users\\Alice\\Pictures\\2024\\a.jpg",
    "C:\\Users\\Alice\\Desktop\\repos\\app\\main.py",
    "C:/Users/Alice/Music/song.mp3",
    "C:\\Temp\\cache\\junk.tmp",
    "C:\\ProgramData\\App\\data\\state.bin",
    "E:\\Backup\\old.zip",
    "C:\\Users\\Conner\\Documents\\Work\\report.pdf" }

\* The keys _categorize_destination returns, the other keys of
\* D_DRIVE_STRUCTURE, and a key it does not have
DestCategories == DOMAIN D_DRIVE_STRUCTURE \cup {"downloads"}

InitDest ==
  /\ dest_in \in [source_path : DestSources, category : DestCategories]
  /\ dest_out = None
  /\ dest_pc = "call"
  /\ SafetyIdle
  /\ files = <<>>
  /\ classifications = <<>>
  /\ ClassifierIdle
  /\ NothingReviewed
  /\ NothingExecuted
  /\ ParserIdle
  /\ ClientIdle
  /\ PromptIdle
  /\ DbIdle

ComputeDestPath ==
  /\ dest_pc = "call"
  /\ dest_out' = compute_dest_path(dest_in.source_path, dest_in.category)
  /\ dest_pc' = "ret"
  /\ UNCHANGED <<dest_in, parser_vars, client_vars, prompt_vars, db_vars,
                 safety_vars, catalog_vars, classifier_vars, review_vars, executor_vars>>

NextDest == ComputeDestPath

SpecDest == InitDest /\ [][NextDest]_vars

\* The folder of a category: D_DRIVE_STRUCTURE.get(category, documents)
CategoryRoot(category) ==
  IF category \in DOMAIN D_DRIVE_STRUCTURE THEN D_DRIVE_STRUCTURE[category]
  ELSE D_DRIVE_STRUCTURE.documents

\* The destination is the category root followed by the components of the
\* source after its first three, or by the leaf alone when the source has
\* fewer than four components
StripsThreeComponents ==
  dest_pc = "ret" =>
    LET parts == PathParts(dest_in.source_path)
        root  == CategoryRoot(dest_in.category)
    IN  /\ Len(parts) >= 4 =>
             dest_out = JoinParts(root, SubSeq(parts, 4, Len(parts)))
        /\ Len(parts) < 4 =>
             dest_out = JoinParts(root, <<parts[Len(parts)]>>)

\* The example given for the rule: a file in Documents\Work goes to Work
\* under the documents root
ExampleUnderWork ==
  (/\ dest_pc = "ret"
   /\ dest_in.source_path = "C:\\Users\\Alice\\Documents\\Work\\r.pdf"
   /\ dest_in.category = "documents")
  => dest_out = D_DRIVE_STRUCTURE.documents \o "\\Work\\r.pdf"

\* C25: the destination is the category root followed by the source path
\* without its first three components, so that
\* C:\Users\Alice\Documents\Work\r.pdf goes to <documents root>\Work\r.pdf,
\* and a source of fewer than four components goes to <root>\<leaf>
C25_DestinationStripsThree == StripsThreeComponents /\ ExampleUnderWork

\* The position in the action log of the entry with this log id
LogIndex(log, log_id) == CHOOSE i \in 1..Len(log) : log[i].id = log_id

\* C26: undo_batch hands to the reversal exactly the entries of the batch
\* that were not undone when it started, each once, in strictly descending
\* order of log id, which is the reverse of their order in the action log
C26_UndoNewestFirst ==
  [][UndoBatch =>
       LET order    == undo_summary'.order
           selected == {i \in 1..Len(action_log) :
                          /\ action_log[i].batch_id = undo_summary'.batch_id
                          /\ action_log[i].undone = 0}
       IN  /\ Len(order) = Cardinality(selected)
           /\ {order[k] : k \in 1..Len(order)} =
                {action_log[i].id : i \in selected}
           /\ \A k \in 1..(Len(order) - 1) :
                 /\ order[k] > order[k + 1]
                 /\ LogIndex(action_log, order[k]) >
                      LogIndex(action_log, order[k + 1])]_vars

\* A live undo of a batch of three deletions: all three were reversed,
\* the newest first
C26_Witness ==
  /\ undo_summary.batch_id = "batch_1"
  /\ ~undo_summary.dry_run
  /\ Len(action_log) = 3
  /\ \A i \in 1..3 : action_log[i].batch_id = "batch_1" /\ action_log[i].undone = 1
  /\ undo_summary.order = <<3, 2, 1>>
  /\ undo_summary.undone = 3

\* How many of the reversals of the last undo_batch call ended this way
Outcomes(u, how) ==
  Cardinality({k \in 1..Len(u.outcomes) : u.outcomes[k] = how})

\* C27: undo_batch calls the reversal of every selected entry, whatever
\* the calls before it did; it counts a call that raised as failed, one
\* that returned True as undone and one that returned False as skipped, so
\* that the three counts add up to the number of selected entries; an
\* entry whose reversal raised keeps undone = 0; and in a live run an entry
\* has undone = 1 afterwards exactly when its reversal returned True
C27_FailedReversalIsCounted ==
  [][UndoBatch =>
       LET u        == undo_summary'
           selected == get_batch_actions(action_log, u.batch_id)
       IN  /\ Len(u.outcomes) = Len(selected)
           /\ u.failed = Outcomes(u, "raised")
           /\ u.undone = Outcomes(u, "True")
           /\ u.skipped = Outcomes(u, "False")
           /\ u.undone + u.skipped + u.failed = Len(selected)
           /\ \A k \in 1..Len(selected) :
                 LET after == action_log'[LogIndex(action_log, selected[k].id)]
                 IN  /\ u.order[k] = selected[k].id
                     /\ u.outcomes[k] = "raised" => after.undone = 0
                     /\ ~u.dry_run =>
                          (after.undone = 1 <=> u.outcomes[k] = "True")]_vars

\* A live undo of three deletions in which the reversal of the second of
\* the three raised: it is counted as failed and still not undone, and the
\* entry after it was reversed and marked
C27_Witness ==
  /\ ~undo_summary.dry_run
  /\ undo_summary.order = <<3, 2, 1>>
  /\ undo_summary.outcomes = <<"True", "raised", "True">>
  /\ undo_summary.undone = 2 /\ undo_summary.failed = 1
  /\ action_log[3].undone = 1
  /\ action_log[2].undone = 0
  /\ action_log[1].undone = 1

\* C28: no step of execute_plan or undo_batch removes an entry of the
\* action log or changes a field of one other than undone, and undone
\* only goes from 0 to 1
C28_LogIsAppendOnly ==
  [][/\ Len(action_log') >= Len(action_log)
     /\ \A i \in 1..Len(action_log) :
           /\ action_log'[i].undone \in {0, 1}
           /\ action_log'[i].undone >= action_log[i].undone
           /\ [action_log'[i] EXCEPT !.undone = 0] =
                [action_log[i] EXCEPT !.undone = 0]]_vars

\* After a live run and a live undo of it: the entries are still in the
\* log, with their fields as logged, now marked undone
C28_Witness ==
  /\ Len(action_log) = 2
  /\ undo_summary.undone = 2 /\ ~undo_summary.dry_run
  /\ \A i \in 1..2 :
        /\ action_log[i].id = i
        /\ action_log[i].undone = 1
        /\ action_log[i].action = "DELETED"
        /\ action_log[i].batch_id = "batch_1"
        /\ action_log[i].source_path = plan.rows[i].path

(***************************************************************************)
(* database.py: Database.transaction and the upserts of files              *)
(***************************************************************************)
\* INSERT INTO files ... ON CONFLICT(path) DO UPDATE SET ...: the row of
\* the path is replaced where it is, a new path gets a new row at the end
upsert_row(table, rec) ==
  IF \E i \in 1..Len(table) : table[i].path = rec.path
  THEN [i \in 1..Len(table) |->
          IF table[i].path = rec.path THEN rec ELSE table[i]]
  ELSE Append(table, rec)

\* path and name are NOT NULL: the INSERT of such a record raises
\* sqlite3.IntegrityError
NotNullViolated(rec) == rec.path = None \/ rec.name = None

\* cur.execute per record on the open connection, up to the first one that
\* raises: table is what the connection holds uncommitted at that point
RECURSIVE executemany(_, _, _)
executemany(working, records, k) ==
  IF k > Len(records) THEN [table |-> working, raised |-> FALSE]
  ELSE IF NotNullViolated(records[k]) THEN [table |-> working, raised |-> TRUE]
  ELSE executemany(upsert_row(working, records[k]), records, k + 1)

\* The body of a with-block of the caller: the first raise_after records
\* are written, then the caller's own code raises
scope_raising(working, records, raise_after) ==
  LET done == executemany(working, SubSeq(records, 1, raise_after), 1)
  IN  [done EXCEPT !.raised = TRUE]

\* The rowids while executemany runs: a record with a new path takes the
\* next value of the AUTOINCREMENT sequence, which becomes the connection's
\* last insert rowid; a record that updates the row of its path uses up a
\* value of the sequence and leaves the row's id and the last insert rowid
\* as they are
RECURSIVE execute_rowids(_, _, _, _)
execute_rowids(c, working, records, k) ==
  IF k > Len(records) THEN c
  ELSE IF NotNullViolated(records[k]) THEN c
  ELSE LET rowid == c.sequence + 1
           c2 == IF \E i \in 1..Len(working) : working[i].path = records[k].path
                 THEN [c EXCEPT !.sequence = rowid]
                 ELSE [ ids |-> Append(c.ids, rowid), sequence |-> rowid,
                        last_insert_rowid |-> rowid ]
       IN  execute_rowids(c2, upsert_row(working, records[k]), records, k + 1)

\* conn.commit() or conn.rollback() at the end of Database.transaction: a
\* rollback takes back the rows and the sequence, not the last insert rowid
end_transaction(c, in_scope, raised) ==
  IF raised THEN [c EXCEPT !.last_insert_rowid = in_scope.last_insert_rowid]
  ELSE in_scope

\* row_id = cur.lastrowid, as upsert_file returns it
lastrowid(c) == c.last_insert_rowid

\* Database.transaction without conn.rollback(): the writes of the scope
\* stay on the connection and the next commit stores them
transaction_without_rollback(committed, scope) ==
  [table |-> scope.table, raised |-> scope.raised]

\* Database.transaction around a scope: commit when the scope ended
\* normally, rollback and re-raise when it raised
transaction(committed, scope) ==
  IF scope.raised THEN [table |-> committed, raised |-> TRUE]
  ELSE [table |-> scope.table, raised |-> FALSE]

\* Database.upsert_file
upsert_file(table, metadata) ==
  transaction(table, executemany(table, <<metadata>>, 1))

\* Database.bulk_upsert_files
bulk_upsert_files(table, records) ==
  transaction(table, executemany(table, records, 1))

\* Largest number of records in one call
MaxRecords == 2

\* Largest value of the AUTOINCREMENT sequence of files
MaxRowid == 3

\* The records the scanner hands over: two files, one of them seen again
\* with another owner, and a record without path and name
ScanRecords ==
  { FileRec("C:\\Users\\A\\cache\\junk.tmp", ".tmp", "TestUser", 0),
    FileRec("C:\\Users\\A\\cache\\junk.tmp", ".tmp", "Alice", 0),
    FileRec("C:\\Users\\A\\Documents\\thesis.docx", ".docx", "TestUser", 0),
    [ path |-> None, name |-> None, extension |-> "", owner |-> None,
      is_dir |-> 0 ] }

RecordBatches ==
  UNION {[1..n -> ScanRecords] : n \in 1..MaxRecords}

InitCatalog ==
  /\ files = <<>>
  /\ classifications = <<>>
  /\ db_call = NoCall
  /\ conn = NewConnection
  /\ SafetyIdle
  /\ ClassifierIdle
  /\ NothingReviewed
  /\ NothingExecuted
  /\ ParserIdle
  /\ ClientIdle
  /\ PromptIdle
  /\ DestIdle

\* db.upsert_file(metadata)
UpsertFile ==
  /\ conn.sequence + 1 <= MaxRowid
  /\ \E metadata \in ScanRecords :
       LET r == upsert_file(files, metadata)
           c == end_transaction(conn, execute_rowids(conn, files, <<metadata>>, 1),
                                r.raised)
       IN  /\ files' = r.table
           /\ conn' = c
           /\ db_call' = [ op |-> "upsert_file", records |-> <<metadata>>,
                           raise_after |-> {}, raised |-> r.raised,
                           returned |-> IF r.raised THEN {} ELSE {lastrowid(c)} ]
  /\ UNCHANGED <<classifications, parser_vars, client_vars, prompt_vars,
                 dest_vars, safety_vars, classifier_vars, review_vars,
                 executor_vars>>

\* db.bulk_upsert_files(records)
BulkUpsertFiles ==
  /\ \E records \in RecordBatches :
       LET r == bulk_upsert_files(files, records)
       IN  /\ conn.sequence + Len(records) <= MaxRowid
           /\ files' = r.table
           /\ conn' = end_transaction(conn, execute_rowids(conn, files, records, 1),
                                      r.raised)
           /\ db_call' = [ op |-> "bulk_upsert_files", records |-> records,
                           raise_after |-> {}, raised |-> r.raised,
                           returned |-> {} ]
  /\ UNCHANGED <<classifications, parser_vars, client_vars, prompt_vars,
                 dest_vars, safety_vars, classifier_vars, review_vars,
                 executor_vars>>

\* with db.transaction() as cur: writes of the caller, whose code raises
\* after some of them
TransactionScope ==
  /\ \E records \in RecordBatches : \E n \in 0..Len(records) :
       LET r == transaction(files, scope_raising(files, records, n))
       IN  /\ conn.sequence + n <= MaxRowid
           /\ files' = r.table
           /\ conn' = end_transaction(conn,
                         execute_rowids(conn, files, SubSeq(records, 1, n), 1),
                         r.raised)
           /\ db_call' = [ op |-> "transaction", records |-> records,
                           raise_after |-> {n}, raised |-> r.raised,
                           returned |-> {} ]
  /\ UNCHANGED <<classifications, parser_vars, client_vars, prompt_vars,
                 dest_vars, safety_vars, classifier_vars, review_vars,
                 executor_vars>>

NextCatalog ==
  \/ UpsertFile
  \/ BulkUpsertFiles
  \/ TransactionScope

SpecCatalog == InitCatalog /\ [][NextCatalog]_vars

\* The rows of table with the path of rec
RowsOf(table, rec) == {i \in 1..Len(table) : table[i].path = rec.path}

\* The table holds every record of the call: each path once, with the
\* fields of the last record of that path, and the rows of other paths as
\* they were
AllWritten(before, after, records) ==
  /\ \A k \in 1..Len(records) :
        \E i \in 1..Len(after) :
           /\ RowsOf(after, records[k]) = {i}
           /\ \E j \in k..Len(records) :
                 /\ after[i] = records[j]
                 /\ \A m \in (j + 1)..Len(records) :
                       records[m].path # records[j].path
  /\ \A i \in 1..Len(before) :
        (\A k \in 1..Len(records) : records[k].path # before[i].path)
          => after[i] = before[i]
  /\ Len(after) =
       Cardinality({before[i].path : i \in 1..Len(before)} \cup
                   {records[k].path : k \in 1..Len(records)})

\* Something raised inside the scope of the call: a statement, or the
\* caller's code
RaisedInScope(call) ==
  \/ call.raise_after # {}
  \/ \E k \in 1..Len(call.records) : NotNullViolated(call.records[k])

\* C29: every write call on the Database whose transaction scope raised
\* leaves the files table as it was and raises to its caller; a call whose
\* scope ended normally leaves every write of the scope in the table; so
\* bulk_upsert_files stores all of its records or none
C29_TransactionIsAtomic ==
  [][/\ db_call'.raised <=> RaisedInScope(db_call')
     /\ db_call'.raised => files' = files
     /\ ~db_call'.raised => AllWritten(files, files', db_call'.records)]_vars

\* A bulk upsert of two records into a table of one row, the second record
\* without a path: it raised, and the row is as it was before the call,
\* not as the first record had rewritten it
C29_Witness ==
  /\ db_call.op = "bulk_upsert_files"
  /\ db_call.raised
  /\ Len(db_call.records) = 2
  /\ ~NotNullViolated(db_call.records[1])
  /\ NotNullViolated(db_call.records[2])
  /\ Len(files) = 1
  /\ files[1].path = db_call.records[1].path
  /\ files[1] # db_call.records[1]

\* C30: a file of the catalog that is no longer at its scanned path has an
\* entry in the action log that names this path as source: every
\* relocation was logged before it was carried out, so none is left
\* without the entry that undoes it
C30_LoggedBeforeExecuted ==
  \A i \in 1..Len(files) :
     files[i].path \notin DOMAIN fs =>
       \E j \in 1..Len(action_log) :
          /\ action_log[j].source_path = files[i].path
          /\ action_log[j].action \in {"MOVED", "DELETED", "SYMLINKED"}

\* C31: a live execute_plan returns its summary whatever happens to an
\* entry; every entry of the plan is counted once, as done, skipped or
\* error; the entries counted as done are the ones with a new log entry,
\* one each, so an entry whose processing failed, also in the log write
\* itself, is one error and leaves no entry, and the entries after it are
\* processed
C31_ErrorIsCountedOnceAndLoopGoesOn ==
  [][LiveRun =>
       LET s    == summary'
           rows == plan'.rows
       IN  /\ s.batch_id = generate_batch_id(batch_count')
           /\ s.moved + s.deleted + s.archived + s.symlinked + s.skipped
                + s.errors = Len(rows)
           /\ s.moved = Cardinality(AppendedAs("MOVED"))
           /\ s.deleted = Cardinality(AppendedAs("DELETED"))
           /\ s.archived = Cardinality(AppendedAs("ARCHIVED"))
           /\ s.symlinked = Cardinality(AppendedAs("SYMLINKED"))
           /\ \A k \in 1..Len(rows) : Cardinality(Appended(rows[k].id)) <= 1
           /\ \A i \in (Len(action_log) + 1)..Len(action_log') :
                 \E k \in 1..Len(rows) : action_log'[i].file_id = rows[k].id]_vars

\* A live run of two deletions in which the log write for the first one
\* failed: one error, and the second entry was deleted and logged
C31_Witness ==
  /\ plan.called /\ ~plan.dry_run
  /\ Len(plan.rows) = 2
  /\ plan.rows[1].final_action = "DELETE_JUNK"
  /\ plan.rows[2].final_action = "DELETE_JUNK"
  /\ summary.errors = 1 /\ summary.deleted = 1
  /\ Len(action_log) = 1
  /\ action_log[1].file_id = plan.rows[2].id
  /\ plan.rows[1].path \notin DOMAIN fs

\* The six counters of a summary
Counters(s) ==
  [ moved |-> s.moved, deleted |-> s.deleted, archived |-> s.archived,
    symlinked |-> s.symlinked, skipped |-> s.skipped, errors |-> s.errors ]

\* C32: the counters a dry run returns are the counters a live run in which
\* nothing goes wrong returns for the same plan on the same disk, also
\* when the source of an entry is not on disk
C32_DryRunCountsAsLive ==
  [][DryRun =>
       Counters(summary') =
         Counters(execute_plan(fs, action_log, plan'.rows, batch_count',
                               FALSE, NoFaults).summary)]_vars

\* An undo_batch call in which nothing goes wrong
NoUndoFaults == [mark_fails |-> {}, move_fails |-> {}]

\* The live undo of the batch just executed, had the data at path been
\* removed from the disk after the run
UndoWithout(path) ==
  undo_batch(remove(fs', path), action_log', summary'.batch_id, FALSE,
             NoUndoFaults)

\* C33: a live undo of a SYMLINKED entry whose junction and target are both
\* on disk removes the junction, leaves the content of the target as it
\* was and moves it back to the source path; and when the target is no
\* longer on disk, the undo counts the entry as skipped and leaves it not
\* undone
C33_SymlinkUndoneOrSkipped ==
  [][/\ (UndoBatch /\ ~undo_summary'.dry_run) =>
          \A k \in 1..Len(undo_summary'.order) :
             LET i     == LogIndex(action_log, undo_summary'.order[k])
                 entry == action_log[i]
             IN  (/\ entry.action = "SYMLINKED"
                  /\ is_junction(fs, entry.source_path)
                  /\ is_dir(fs, entry.dest_path)
                  /\ undo_summary'.outcomes[k] = "True") =>
                    /\ fs'[entry.source_path] = fs[entry.dest_path]
                    /\ entry.dest_path \notin DOMAIN fs'
                    /\ action_log'[i].undone = 1
     /\ LiveRun =>
          \A i \in AppendedAs("SYMLINKED") :
             LET u == UndoWithout(action_log'[i].dest_path)
             IN  /\ u.skipped = Cardinality({k \in 1..Len(u.order) :
                                               u.order[k] = action_log'[i].id})
                 /\ u.undone + u.failed = Len(u.order) - u.skipped
                 /\ u.log[i].undone = 0]_vars

\* The place under the apps root a directory is migrated to
MigrationTarget(source) == JoinParts(APPS_ROOT, <<PathName(source)>>)

\* C34: in a live run, a MOVE_APP entry on a directory whose target is
\* already on disk changes neither path and gets no log entry; and every
\* MOVE_APP entry on a directory that ends without a SYMLINKED entry is
\* counted as an error and leaves the directory at its path as it was,
\* with nothing left at the target
C34_FailedMigrationLeavesOriginal ==
  [][LiveRun =>
       \A k \in 1..Len(plan'.rows) :
          LET row    == plan'.rows[k]
              target == MigrationTarget(row.path)
          IN  (/\ row.final_action = "MOVE_APP"
               /\ is_dir(fs, row.path)) =>
                /\ exists(fs, target) =>
                     /\ Appended(row.id) = {}
                     /\ fs'[row.path] = fs[row.path]
                     /\ fs'[target] = fs[target]
                /\ Appended(row.id) = {} =>
                     /\ summary'.errors >= 1
                     /\ summary'.symlinked = 0
                     /\ row.path \in DOMAIN fs'
                     /\ fs'[row.path] = fs[row.path]
                     /\ ~exists(fs, target) => target \notin DOMAIN fs']_vars

(***************************************************************************)
(* Properties of the layered override (checked under SpecSafety)           *)
(***************************************************************************)
\* The extension Layer 2 looks at: the extension column, or the suffix of
\* the path when the column is empty
GuardianExt(f) == IF Truthy(f.extension) THEN f.extension ELSE PathSuffix(f.path)

\* C35: when more than one layer has grounds to override a proposed DELETE_*
\* on an unprotected file, override_reason is the reason of the earliest of
\* guardian, sensitive, confidence that tripped, and the warnings of the
\* guardian and the sensitive layers are both in the verdict, in that order.
C35_EarliestLayerGivesTheReason ==
  (check_pc = "ret" /\ check_in.file \notin ProtectedFiles
                    /\ check_in.ai_action \in DeleteActions)
     => LET f == check_in.file
            guardian_warning == "GUARDIAN: " \o GuardianExt(f)
                                   \o " file protected from deletion"
            sensitive_warning == "SENSITIVE: " \o f.path
                                   \o " matches sensitive pattern"
            uncertain == IF check_in.ai_confidence < 40000
                            /\ f \in GuardianFiles \cup SensitiveFiles
                         THEN <<"UNCERTAIN: confidence "
                                  \o Fmt2(check_in.ai_confidence) \o " < 0.4">>
                         ELSE <<>>
        IN  /\ f \in GuardianFiles
              => check_out.override_reason = "Document Guardian - " \o GuardianExt(f)
                      \o " files cannot be deleted, only moved/archived"
            /\ f \in SensitiveFiles \ GuardianFiles
              => check_out.override_reason = "Sensitive file - cannot be deleted"
            /\ (f \notin GuardianFiles \cup SensitiveFiles
                  /\ check_in.ai_confidence < 85000)
              => check_out.override_reason =
                   "Delete requires confidence >= 0.85, got "
                      \o Fmt2(check_in.ai_confidence)
            /\ check_out.warnings =
                 (IF f \in GuardianFiles THEN <<guardian_warning>> ELSE <<>>)
                   \o (IF f \in SensitiveFiles THEN <<sensitive_warning>> ELSE <<>>)
                   \o uncertain

\* C35 witness: a deletion proposed at confidence 0.0 for a .pdf whose name
\* contains "secret"; all three layers have grounds, the reason is the
\* guardian's and the three warnings are there
C35_Witness ==
  /\ check_pc = "ret"
  /\ check_in.file.path = "C:\\Users\\A\\secret.pdf"
  /\ check_in.file \in (GuardianFiles \cap SensitiveFiles) \ ProtectedFiles
  /\ check_in.ai_action = "DELETE_JUNK"
  /\ check_in.ai_confidence = 0
  /\ check_out.final_action = "KEEP"
  /\ check_out.override_reason
       = "Document Guardian - .pdf files cannot be deleted, only moved/archived"
  /\ Len(check_out.warnings) = 3
  /\ check_out.is_guardian_protected /\ check_out.is_sensitive

\* C36: for an unprotected, non-sensitive file whose proposed action is not
\* a delete, or is a delete at confidence 0.85 or more on a file without a
\* guardian extension, the verdict has needs_review exactly when the
\* confidence is below 0.7, the one warning UNCERTAIN exactly when it is
\* below 0.4, the proposed action unchanged and overridden false.
C36_ReviewAndUncertainThresholds ==
  (check_pc = "ret"
     /\ check_in.file \notin ProtectedFiles \cup SensitiveFiles
     /\ \/ check_in.ai_action \notin DeleteActions
        \/ check_in.ai_confidence >= 85000 /\ check_in.file \notin GuardianFiles)
     => /\ check_out.needs_review <=> check_in.ai_confidence < 70000
        /\ check_out.warnings =
             IF check_in.ai_confidence < 40000
             THEN <<"UNCERTAIN: confidence " \o Fmt2(check_in.ai_confidence)
                      \o " < 0.4">>
             ELSE <<>>
        /\ check_out.final_action = check_in.ai_action
        /\ ~check_out.overridden
        /\ check_out.override_reason = ""

\* C36 witness: ARCHIVE proposed at confidence exactly 0.7 comes back
\* without the review flag
C36_Witness ==
  /\ check_pc = "ret"
  /\ check_in.file \notin ProtectedFiles \cup SensitiveFiles \cup GuardianFiles
  /\ check_in.ai_action = "ARCHIVE"
  /\ check_in.ai_confidence = 70000
  /\ check_out.final_action = "ARCHIVE"
  /\ ~check_out.needs_review
  /\ check_out.warnings = <<>>

\* C39: for every input the verdict's final_action is the proposed action
\* or KEEP; overridden implies KEEP; a final_action other than the proposed
\* one implies overridden; is_protected or is_guardian_protected implies
\* overridden.
C39_VerdictShape ==
  check_pc = "ret"
     => /\ check_out.original_action = check_in.ai_action
        /\ check_out.final_action \in {check_in.ai_action, "KEEP"}
        /\ check_out.overridden => check_out.final_action = "KEEP"
        /\ was_modified(check_out) => check_out.overridden
        /\ (check_out.is_protected \/ check_out.is_guardian_protected)
             => check_out.overridden

\* C39 witness: MOVE_DATA proposed for a document outside every protected
\* root: Layer 2 does not act, the action passes, no protection flag is set
C39_Witness ==
  /\ check_pc = "ret"
  /\ check_in.file \in GuardianFiles \ (ProtectedFiles \cup SensitiveFiles)
  /\ check_in.ai_action = "MOVE_DATA"
  /\ check_in.ai_confidence = 100000
  /\ check_out.final_action = "MOVE_DATA"
  /\ ~check_out.overridden
  /\ ~check_out.is_guardian_protected
  /\ ~check_out.is_protected

(***************************************************************************)
(* The empty answer (checked under SpecClassify)                           *)
(***************************************************************************)
\* C37: a batch for which the LLM returns a valid, empty JSON array is a
\* failed batch: it adds no classification row and adds one to the run of
\* consecutive failures, as a batch whose transport failed does.
C37_EmptyArrayIsAFailedBatch ==
  (cls_pc \in {"loop", "returned"} /\ last_batch.event = "ok"
                                   /\ last_batch.empty_array)
     => /\ classifications = last_batch.rows_before
        /\ classified = last_batch.classified_before
        /\ consecutive_failures = last_batch.failures_before + 1

\* What the code does with the empty array: every file of the batch whose
\* INSERT is accepted is stored as KEEP, and the run of failures is reset
\* unless no INSERT was accepted
EmptyArrayStoresKeep ==
  (cls_pc \in {"loop", "returned"} /\ last_batch.event = "ok"
                                   /\ last_batch.empty_array)
     => LET ids == {last_batch.ids[k] : k \in 1..Len(last_batch.ids)}
            stored == ids \ last_batch.store_failed
        IN  /\ \A id \in stored : /\ id \in DOMAIN classifications
                                  /\ classifications[id].action = "KEEP"
                                  /\ classifications[id].confidence = 0
            /\ classified = last_batch.classified_before + Cardinality(stored)
            /\ consecutive_failures =
                 IF stored = {} THEN last_batch.failures_before + 1 ELSE 0

(***************************************************************************)
(* The value upsert_file returns (checked under SpecCatalog)               *)
(***************************************************************************)
\* C38: upsert_file returns the id of the files row that holds the given
\* path, when the call inserted the row and when it updated the row of a
\* path already in the table, whatever was written on the connection in
\* between.
C38_UpsertReturnsIdOfThePath ==
  (db_call.op = "upsert_file" /\ ~db_call.raised)
     => \E i \in 1..Len(files) :
           /\ files[i].path = db_call.records[1].path
           /\ db_call.returned = {conn.ids[i]}

\* The ids of the rows: an update leaves the id of every row as it was, an
\* insert gives the new row an id above every id handed out before, and the
\* connection holds one id per row
RowidsKept ==
  [][/\ Len(conn'.ids) = Len(files')
     /\ \A i \in 1..Len(files) : i <= Len(files') /\ conn'.ids[i] = conn.ids[i]
     /\ \A i \in (Len(files) + 1)..Len(files') : conn'.ids[i] > conn.sequence]_vars

\* What upsert_file returns: the id of the row when the call inserted it;
\* when the call updated a row, the id of the last row inserted on the
\* connection, in whatever call, committed or rolled back (0 on a connection
\* that has inserted nothing)
UpsertReturnsLastInsert ==
  [][(db_call'.op = "upsert_file" /\ ~db_call'.raised)
       => IF Len(files') > Len(files)
          THEN db_call'.returned = {conn'.ids[Len(files')]}
          ELSE db_call'.returned = {conn.last_insert_rowid}]_vars

(***************************************************************************)
(* A second undo of a batch (checked under SpecPlan)                       *)
(***************************************************************************)
\* The batch has entries in the action log and every one is marked undone
AllUndone(log, batch_id) ==
  /\ \E i \in 1..Len(log) : log[i].batch_id = batch_id
  /\ \A i \in 1..Len(log) : log[i].batch_id = batch_id => log[i].undone = 1

\* C40: undo_batch on a batch whose entries are all marked undone hands no
\* entry to the reversal, returns undone = 0, skipped = 0 and failed = 0,
\* and leaves the file system and the action log as they were.
C40_UndoneIsNotReversedAgain ==
  [][(UndoBatch /\ AllUndone(action_log, undo_summary'.batch_id))
       => /\ undo_summary'.order = <<>>
          /\ undo_summary'.undone = 0
          /\ undo_summary'.skipped = 0
          /\ undo_summary'.failed = 0
          /\ fs' = fs
          /\ action_log' = action_log]_vars

\* C40 witness: after a live run of two deletions and a live undo that
\* restored both, a second live undo of the batch has returned zeros; the
\* files are at their paths and the two entries are still marked undone
C40_Witness ==
  /\ Len(action_log) = 2
  /\ AllUndone(action_log, "batch_1")
  /\ undo_summary.batch_id = "batch_1" /\ ~undo_summary.dry_run
  /\ undo_summary.order = <<>>
  /\ undo_summary.undone = 0 /\ undo_summary.skipped = 0 /\ undo_summary.failed = 0
  /\ \A i \in 1..2 : /\ action_log[i].action = "DELETED"
                     /\ action_log[i].source_path \in DOMAIN fs
                     /\ action_log[i].dest_path \notin DOMAIN fs

====
